---- MODULE Spec2Model ----
(***************************************************************************)
(* Verification model of drupal-intent-testing: the Assertion Judge        *)
(* (scripts/judge_intent.py), the Checkpoint Orchestrator                  *)
(* (scripts/collectors.py) and the two Step Interpreters                   *)
(* (scripts/compare_runs.py execute_script, scripts/intent_test.py         *)
(* execute_steps).                                                         *)
(*                                                                         *)
(* Python values: a missing dict key is Absent, the value None is None.    *)
(* Strings that the code searches are sequences of symbols, so that        *)
(* substring tests are computed, not assumed.                              *)
(***************************************************************************)
EXTENDS Integers, Sequences, FiniteSets, TLC

VARIABLES
    manifest,      \* judge(): the normalized manifest (assertions, guards)
    run,           \* judge() / evaluate_assertion(): the run (checkpoints, inline assertions)
    verdict,       \* judge(): the returned verdict, NoVerdict before the call
    assertion,     \* evaluate_assertion(): the assertion under evaluation
    result,        \* evaluate_assertion(): the returned result, NoResult before the call
    resolved,      \* evaluate_assertion(): the checkpoint its lookup resolved, NoneRec if none
    cpIndex,       \* compare_runs.main: the name -> checkpoint index, NoIndex before it is built
    cpArgs,        \* collect_checkpoint(): its arguments (name, mode, include_screenshot, probe_cmds)
    cpEnv,         \* collect_checkpoint(): what each capture does when called (the agent, the disk)
    cpOut,         \* collect_checkpoint(): the returned checkpoint or the raised error, NoneRec before
    script,        \* interpreter call: which interpreter, its steps, stop_on_fail
    ipc,           \* interpreter: index of the next step and running / returned / raised
    results,       \* interpreter: the results dict (log, checkpoints, assertions)
    executed,      \* history: indices of the steps whose handler ran, in order
    raisedAt,      \* history: indices of the steps whose handler raised
    prog,          \* main(): the program invoked, its input files and what the agent will do
    pc,            \* main(): where the invocation stands (label, current run, next step)
    runs,          \* main(): the runs executed so far, by run name
    issued,        \* history: commands issued to the outside (agent steps, shell commands)
    written,       \* main(): the output files written so far
    exitCode,      \* main(): the process exit, NoneRec while it is running
    call,          \* a comparator or helper applied on its own: its name and arguments
    ret,           \* what that call returned, NoneRec before it returns
    locals         \* the local variables of a call that runs in several steps

judgeVars == <<manifest, verdict>>
evalVars == <<assertion, result, resolved, cpIndex>>
collectVars == <<cpArgs, cpEnv, cpOut>>
interpVars == <<script, ipc, results, executed, raisedAt>>
mainVars == <<prog, pc, runs, issued, written, exitCode>>
callVars == <<call, ret, locals>>

vars == <<manifest, run, verdict, assertion, result, resolved, cpIndex, cpArgs, cpEnv, cpOut,
          script, ipc, results, executed, raisedAt,
          prog, pc, runs, issued, written, exitCode, call, ret, locals>>

\* ------------------------------------------------------------------ values

Absent == "Absent"
None == "None"

\* A None where a dict, a checkpoint, a verdict or a result is expected
NoneRec == [none |-> TRUE]
NoVerdict == [none |-> TRUE]
NoResult == [none |-> TRUE]
NoIndex == [none |-> TRUE]

\* A component that a specification does not exercise stays as constructed
EvalIdle == assertion = NoneRec /\ result = NoResult /\ resolved = NoneRec /\ cpIndex = NoIndex
JudgeIdle == manifest = NoneRec /\ verdict = NoVerdict
CollectIdle == cpArgs = NoneRec /\ cpEnv = NoneRec /\ cpOut = NoneRec
InterpIdle ==
    /\ script = NoneRec /\ ipc = NoneRec /\ results = NoneRec
    /\ executed = <<>> /\ raisedAt = {}
MainIdle ==
    /\ prog = NoneRec /\ pc = NoneRec /\ runs = <<>>
    /\ issued = <<>> /\ written = {} /\ exitCode = NoneRec
CallIdle == call = NoneRec /\ ret = NoneRec /\ locals = NoneRec

\* A None where a text is expected; texts are sequences of symbols
NoneT == <<"None">>

\* A scalar value of a parsed document or of a manifest literal
Scalar(v) == [kind |-> "scalar", val |-> v]
NoneV == [kind |-> "none"]

\* Python truthiness of a name (a missing key, None and "" are falsy)
Truthy(v) == v # Absent /\ v # None /\ v # ""

\* Python truthiness of a text
TruthyT(t) == t # NoneT /\ t # <<>>

\* d.get(k, default) on a modelled field
GetOr(v, default) == IF v = Absent THEN default ELSE v

\* text or ""
OrEmpty(t) == IF TruthyT(t) THEN t ELSE <<>>

\* Python `needle in hay` on strings, both as sequences of symbols
Contains(hay, needle) ==
    \E i \in 0..(Len(hay) - Len(needle)) :
        SubSeq(hay, i + 1, i + Len(needle)) = needle

Range(s) == { s[i] : i \in 1..Len(s) }

\* Sequences over S of length 0..n
SeqUpTo(S, n) == UNION { [1..k -> S] : k \in 0..n }

\* ------------------------------------------------------------------ collectors.py

\* extract_data_field: parsed.data of a record, None when there is none
extract_data_field(record) ==
    IF record.file = "ok" /\ record.parsed = "dict_with_data" THEN record.data
    ELSE [kind |-> "none"]

\* extract_log_entries: a direct list, the first list found under
\* errors|messages|logs|entries of a dict, or a truthy scalar as one entry
extract_log_entries_counting_none(record) ==
    LET data == extract_data_field(record)
        keys == <<"errors", "messages", "logs", "entries">>
        found == { i \in 1..4 : keys[i] \in DOMAIN data.items_by_key }
    IN  CASE data.kind = "list" -> data.items
          [] data.kind = "dict" ->
                IF found = {} THEN <<>>
                ELSE data.items_by_key[keys[CHOOSE i \in found : \A j \in found : i <= j]]
          [] data.kind = "scalar" -> IF data.truthy THEN <<data>> ELSE <<>>
          [] OTHER -> <<data>>
extract_log_entries(record) ==
    LET data == extract_data_field(record)
        keys == <<"errors", "messages", "logs", "entries">>
        found == { i \in 1..4 : keys[i] \in DOMAIN data.items_by_key }
    IN  CASE data.kind = "list" -> data.items
          [] data.kind = "dict" ->
                IF found = {} THEN <<>>
                ELSE data.items_by_key[keys[CHOOSE i \in found : \A j \in found : i <= j]]
          [] data.kind = "scalar" -> IF data.truthy THEN <<data>> ELSE <<>>
          [] OTHER -> <<>>

\* One capture of collect_checkpoint inside its try/except, with the except
\* clause swallowing the error instead of recording it
CaptureSilent(c, kind, idx, outcome) ==
    LET called == [c EXCEPT !.calls = Append(@, [kind |-> kind, idx |-> idx])]
    IN  IF outcome = "raise" THEN called
        ELSE IF kind = "probe"
             THEN [called EXCEPT !.probe_paths = Append(@, idx)]
             ELSE [called EXCEPT !.artifacts = @ \cup {kind},
                                 !.summary = IF kind \in {"console", "errors", "drupal_messages",
                                                          "ai_explorer"}
                                             THEN @ \cup {kind} ELSE @]

\* One capture of collect_checkpoint inside its try/except: the collector is
\* called; if it raises, an entry is appended to errors; if it returns (also
\* with a non-zero returncode in its record) the artifact path is recorded
Capture(c, kind, idx, outcome) ==
    LET called == [c EXCEPT !.calls = Append(@, [kind |-> kind, idx |-> idx])]
    IN  IF outcome = "raise"
        THEN [called EXCEPT !.errors = Append(@, [kind |-> kind, idx |-> idx])]
        ELSE IF kind = "probe"
             THEN [called EXCEPT !.probe_paths = Append(@, idx)]
             ELSE [called EXCEPT !.artifacts = @ \cup {kind},
                                 !.summary = IF kind \in {"console", "errors", "drupal_messages",
                                                          "ai_explorer"}
                                             THEN @ \cup {kind} ELSE @]

\* The probe loop of collect_checkpoint over probe_cmds, from position idx
RECURSIVE CaptureProbes(_, _, _)
CaptureProbes(c, outcomes, idx) ==
    IF idx > Len(outcomes) THEN c
    ELSE CaptureProbes(Capture(c, "probe", idx, outcomes[idx]), outcomes, idx + 1)

\* collect_checkpoint after the URL lookup returned: the captures in code order
CaptureAll(c, args, env) ==
    LET s1 == IF args.mode \in {"full", "snapshot"}
              THEN Capture(c, "snapshot", 0, env.snapshot) ELSE c
        s2 == IF args.include_screenshot /\ args.mode = "full"
              THEN Capture(s1, "screenshot", 0, env.screenshot) ELSE s1
        s3 == Capture(s2, "console", 0, env.console)
        s4 == Capture(s3, "errors", 0, env.errors)
        s5 == Capture(s4, "drupal_messages", 0, env.drupal_messages)
        s6 == Capture(s5, "ai_explorer", 0, env.ai_explorer)
        s7 == CaptureProbes(s6, SubSeq(env.probes, 1, args.probe_cmds), 1)
        s8 == IF s7.probe_paths # <<>> THEN [s7 EXCEPT !.artifacts = @ \cup {"probes"}] ELSE s7
    IN  IF args.mode = "full" THEN s8 ELSE s4

\* What the agent process does when run: exits 0 printing JSON, exits
\* non-zero printing nothing, exits 0 printing text that is not JSON, cannot
\* be started, or exceeds the timeout
ProcOutcomes == {"ok", "nonzero", "bad_json", "nostart", "timeout"}

\* subprocess.run: FileNotFoundError when the agent cannot be started,
\* TimeoutExpired when it exceeds the timeout
SubprocessRaises(proc) == proc \in {"nostart", "timeout"}

\* run_agent_browser: subprocess.run is called outside any try; the record
\* carries the returncode, and parsed or parsed_error when JSON was wanted
\* and stdout is not blank
run_agent_browser(proc, want_json) ==
    LET rec == [returncode |-> IF proc = "nonzero" THEN 1 ELSE 0,
                stdout |-> CASE proc = "ok" -> "json"
                             [] proc = "bad_json" -> "text"
                             [] OTHER -> ""]
    IN  IF SubprocessRaises(proc) THEN [raised |-> TRUE]
        ELSE IF want_json /\ rec.stdout = "json"
             THEN [raised |-> FALSE,
                   rec |-> [returncode |-> rec.returncode, stdout |-> rec.stdout,
                            parsed |-> [kind |-> "dict",
                                        data |-> <<"example.com", "node", "1">>]]]
        ELSE IF want_json /\ rec.stdout = "text"
             THEN [raised |-> FALSE,
                   rec |-> [returncode |-> rec.returncode, stdout |-> rec.stdout,
                            parsed_error |-> "stdout was not valid JSON"]]
        ELSE [raised |-> FALSE, rec |-> rec]

\* collect_url: the text of parsed.data, None without it, and the record
collect_url(proc) ==
    LET r == run_agent_browser(proc, TRUE)
    IN  IF r.raised THEN r
        ELSE [raised |-> FALSE, rec |-> r.rec,
              url |-> IF "parsed" \in DOMAIN r.rec THEN r.rec.parsed.data ELSE NoneT]

\* collect_checkpoint: the URL lookup outside any try (a raise leaves the
\* function), a flag for a malformed JSON answer, then the captures
collect_checkpoint(args, env) ==
    LET looked == collect_url(env.url)
        c0 == [name |-> args.name, mode |-> args.mode,
               url |-> looked.url,
               artifacts |-> {}, summary |-> {}, probe_paths |-> <<>>,
               errors |-> IF "parsed_error" \in DOMAIN looked.rec
                          THEN <<[kind |-> "url", idx |-> 0]>> ELSE <<>>,
               calls |-> <<[kind |-> "url", idx |-> 0]>>]
    IN  IF looked.raised THEN [raised |-> TRUE]
        ELSE [raised |-> FALSE, checkpoint |-> CaptureAll(c0, args, env)]

\* ------------------------------------------------------------------ judge_intent.py

\* get_checkpoint falling back to the last checkpoint when the name is unknown
get_checkpoint_fallback(r, name) ==
    LET checkpoints == r.checkpoints
        hits == { i \in 1..Len(checkpoints) : checkpoints[i].name = name }
    IN  IF checkpoints = <<>> THEN NoneRec
        ELSE IF Truthy(name) /\ hits # {}
             THEN checkpoints[CHOOSE i \in hits : \A j \in hits : i <= j]
             ELSE checkpoints[Len(checkpoints)]

\* get_checkpoint: None without checkpoints; the first checkpoint carrying the
\* name when a name is given; the last checkpoint when no name is given
get_checkpoint(r, name) ==
    LET checkpoints == r.checkpoints
        hits == { i \in 1..Len(checkpoints) : checkpoints[i].name = name }
    IN  IF checkpoints = <<>> THEN NoneRec
        ELSE IF Truthy(name)
             THEN IF hits = {} THEN NoneRec
                  ELSE checkpoints[CHOOSE i \in hits : \A j \in hits : i <= j]
             ELSE checkpoints[Len(checkpoints)]

\* load_artifact: no path or an unreadable file gives None, else the payload
load_artifact(artifact) ==
    IF artifact.file = "ok" THEN artifact ELSE NoneRec

\* extract_ai_fields: (final_answer, tool_payload), empty strings when unavailable
extract_ai_fields(cp) ==
    LET payload == load_artifact(cp.artifacts.ai_explorer)
    IN  IF payload = NoneRec THEN <<<<>>, <<>>>>
        ELSE IF payload.data = NoneRec THEN <<<<>>, <<>>>>
        ELSE <<OrEmpty(payload.data.final_answer), OrEmpty(payload.data.tool_payload)>>

\* extract_drupal_messages: (status, alert), None when unavailable
extract_drupal_messages(cp) ==
    LET payload == load_artifact(cp.artifacts.drupal_messages)
    IN  IF payload = NoneRec THEN <<NoneT, NoneT>>
        ELSE IF payload.data = NoneRec THEN <<NoneT, NoneT>>
        ELSE <<payload.data.status, payload.data.alert>>

\* yaml.safe_load on the modelled payloads: an unclosed "[" is a parse error,
\* `k: v` is a mapping, `k: - v` a mapping to a one-item list, the rest a scalar
yaml_safe_load(text) ==
    IF "[" \in Range(text) THEN [err |-> TRUE]
    ELSE IF Len(text) = 3 /\ text[2] = ": "
         THEN [err |-> FALSE,
               value |-> [kind |-> "map", key |-> text[1], val |-> Scalar(text[3])]]
    ELSE IF Len(text) = 4 /\ text[2] = ": " /\ text[3] = "- "
         THEN [err |-> FALSE,
               value |-> [kind |-> "map", key |-> text[1],
                          val |-> [kind |-> "list", items |-> <<Scalar(text[4])>>]]]
    ELSE [err |-> FALSE, value |-> Scalar(text)]

\* One iteration of get_by_path's loop over the dotted parts of the path
get_by_path_part(current, part) ==
    LET keyed == IF current.kind = "map"
                 THEN (IF current.key = part.key THEN current.val ELSE NoneV)
                 ELSE NoneV
    IN  CASE part.t = "empty" -> [stop |-> FALSE, cur |-> current]
          [] part.t = "bad" -> [stop |-> TRUE, cur |-> NoneV]
          [] current.kind # "map" -> [stop |-> TRUE, cur |-> NoneV]
          [] part.t = "key" -> [stop |-> FALSE, cur |-> keyed]
          [] OTHER ->  \* part.t = "idx"
                IF keyed.kind # "list" THEN [stop |-> TRUE, cur |-> NoneV]
                ELSE IF part.idx >= Len(keyed.items) THEN [stop |-> TRUE, cur |-> NoneV]
                ELSE [stop |-> FALSE, cur |-> keyed.items[part.idx + 1]]

RECURSIVE get_by_path(_, _)
get_by_path(data, path) ==
    IF path = <<>> THEN data
    ELSE LET step == get_by_path_part(data, Head(path))
         IN  IF step.stop THEN step.cur ELSE get_by_path(step.cur, Tail(path))

\* re.compile(raw): the modelled patterns are literals; "(" alone is re.error
ReCompiles(raw) == "(" \notin Range(raw)

\* evaluate_text_assertion: the patterns that compile and match, and the outcome
evaluate_text_assertion(text, patterns, expect_present) ==
    LET hits == SelectSeq(patterns, LAMBDA raw : ReCompiles(raw) /\ Contains(OrEmpty(text), raw))
    IN  [passed |-> IF expect_present THEN hits # <<>> ELSE hits = <<>>,
         hits |-> hits]

\* The result record evaluate_assertion starts from (status FAIL, passed False)
BaseResult(a) ==
    [id |-> a.id, type |-> a.type, severity |-> GetOr(a.severity, "fail"),
     passed |-> FALSE, status |-> "FAIL", message |-> ""]

\* The PASS/FAIL result of an assertion that was evaluated
Decided(a, passed, message) ==
    [BaseResult(a) EXCEPT !.passed = passed,
                          !.status = IF passed THEN "PASS" ELSE "FAIL",
                          !.message = message]

\* The ERROR result of an assertion that could not be evaluated
Errored(a, message) ==
    [BaseResult(a) EXCEPT !.status = "ERROR", !.message = message]

\* The text a text_present / text_absent assertion searches, by scope
ScopeTextWhole(cp, scope) ==
    CASE scope = "final_answer" -> extract_ai_fields(cp)[1] \o extract_ai_fields(cp)[2]
      [] scope = "tool_call" -> extract_ai_fields(cp)[2]
      [] scope = "drupal_status" -> OrEmpty(extract_drupal_messages(cp)[1])
      [] scope = "drupal_alert" -> OrEmpty(extract_drupal_messages(cp)[2])
      [] OTHER -> <<>>
ScopeText(cp, scope) ==
    CASE scope = "final_answer" -> extract_ai_fields(cp)[1]
      [] scope = "tool_call" -> extract_ai_fields(cp)[2]
      [] scope = "drupal_status" -> OrEmpty(extract_drupal_messages(cp)[1])
      [] scope = "drupal_alert" -> OrEmpty(extract_drupal_messages(cp)[2])
      [] OTHER -> <<>>

\* evaluate_assertion past the checkpoint lookup: the branch of each type
evaluate_typed(a, cp) ==
    LET tool == extract_ai_fields(cp)[2]
        parsed == yaml_safe_load(tool)
        text == evaluate_text_assertion(ScopeText(cp, a.scope), a.patterns,
                                        a.type = "text_present")
        count == Len(extract_log_entries(cp.artifacts.errors))
        msgs == extract_drupal_messages(cp)
        target == IF GetOr(a.level, "alert") = "alert" THEN msgs[2] ELSE msgs[1]
    IN  CASE a.type \in {"text_absent", "text_present"} ->
                Decided(a, text.passed, IF text.passed THEN "" ELSE "patterns matched")
          [] a.type = "yaml_path_equals" ->
                IF ~TruthyT(tool) THEN Errored(a, "tool payload not found")
                ELSE IF parsed.err THEN Errored(a, "tool payload parse error")
                ELSE Decided(a, get_by_path(parsed.value, a.path) = a.expected,
                             "expected, got")
          [] a.type = "no_console_errors" ->
                Decided(a, count = 0, "console errors count")
          [] a.type = "no_drupal_messages" ->
                Decided(a, ~TruthyT(target),
                        IF TruthyT(target) THEN "messages present" ELSE "")
          [] a.type = "url_contains" ->
                Decided(a, Contains(OrEmpty(cp.url), a.contains), "url contains")
          [] OTHER -> Errored(a, "unknown assertion type")

\* evaluate_assertion: ERROR when the checkpoint is not found, else by type
evaluate_assertion(a, r) ==
    LET cp == get_checkpoint(r, a.checkpoint)
    IN  IF cp = NoneRec THEN Errored(a, "checkpoint not found")
        ELSE evaluate_typed(a, cp)

\* The evaluated form judge() gives an inline (DSL) assertion of the run
InlineEvaluated(ia) ==
    [id |-> ia.id, type |-> ia.type, severity |-> "fail", passed |-> ia.passed,
     status |-> IF ia.passed THEN "PASS" ELSE "FAIL", message |-> ia.message]

\* judge's failures list
IsFailure(e) == ~e.passed /\ e.status = "FAIL" /\ e.severity = "fail"

\* judge's errors list
IsError(e) == e.status = "ERROR"

\* judge's verdict: ERROR if any error, else FAIL if any failure, else PASS
VerdictOf(failures, errors) ==
    IF errors # <<>> THEN "ERROR" ELSE IF failures # <<>> THEN "FAIL" ELSE "PASS"

\* judge's ready flag set whenever nothing errored
ReadyOfNoError(failures, errors) == errors = <<>>

\* judge's ready_to_submit, set in the same branch as the verdict
ReadyOf(failures, errors) == errors = <<>> /\ failures = <<>>

\* judge: evaluate assertions, then guards, then the run's inline assertions
judge(m, r) ==
    LET assertions == m.assertions \o m.guards
        evaluated ==
            [i \in 1..Len(assertions) |-> evaluate_assertion(assertions[i], r)]
            \o [i \in 1..Len(r.assertions) |-> InlineEvaluated(r.assertions[i])]
        failures == SelectSeq(evaluated, IsFailure)
        errors == SelectSeq(evaluated, IsError)
    IN  [verdict |-> VerdictOf(failures, errors),
         ready_to_submit |-> ReadyOf(failures, errors),
         assertions |-> evaluated,
         failures |-> failures,
         errors |-> errors]

\* ------------------------------------------------------------------ compare_runs.py

\* main's {cp.name: cp for cp in checkpoints if cp.name}: a later checkpoint
\* overwrites an earlier one of the same name
checkpoint_index(checkpoints) ==
    LET names == { checkpoints[i].name : i \in 1..Len(checkpoints) }
        last(n) == CHOOSE i \in 1..Len(checkpoints) :
                      /\ checkpoints[i].name = n
                      /\ \A j \in 1..Len(checkpoints) : checkpoints[j].name = n => j <= i
    IN  [n \in { n \in names : Truthy(n) } |-> checkpoints[last(n)]]

\* ------------------------------------------------------------------ compare_runs.py execute_script

\* _safe_split: shlex.split raises ValueError on an unbalanced quote
SplitFails(args) == args = "'unbalanced"

\* shlex.split on the modelled argument strings
Tokens(args) ==
    CASE args = "" -> <<>>
      [] args = "shell p -- ls" -> <<"shell", "p", "--", "ls">>
      [] args = "drush p st" -> <<"drush", "p", "st">>
      [] args = "bogus p" -> <<"bogus", "p">>
      [] args = "eval n 1+1" -> <<"eval", "n", "1+1">>
      [] args = "--contains x" -> <<"--contains", "x">>
      [] args = "--text t" -> <<"--text", "t">>
      [] args = "--load networkidle" -> <<"--load", "networkidle">>
      [] OTHER -> <<args>>

\* _try_parse_float on the modelled argument strings
ParsesAsFloat(raw) == raw \in {"2", "0.5", "-1", "nan"}

\* time.sleep raises ValueError on a negative length and on NaN
SleepRaises(raw) == raw \in {"-1", "nan"}

\* res.get("returncode", 0) of a result that is a dict, 0 for None
ReturnCode(res) == IF "returncode" \in DOMAIN res THEN res.returncode ELSE 0

\* The name a checkpoint step without argument gets: checkpoint_<n>
AutoName(n) ==
    CASE n = 1 -> "checkpoint_1" [] n = 2 -> "checkpoint_2" [] n = 3 -> "checkpoint_3"
      [] n = 4 -> "checkpoint_4" [] OTHER -> "checkpoint_5"

\* A handler that leaves its branch normally, with entry["result"] set
Fall(res, rs) == [flow |-> "fall", result |-> res, results |-> rs, fatal |-> FALSE]

\* A handler that raises: execution resumes in the except clause
Raise(rs) == [flow |-> "raise", result |-> NoneRec, results |-> rs, fatal |-> FALSE]

\* A handler that appends its entry itself and executes `continue`
Continue(res, rs, fatal) == [flow |-> "continue", result |-> res, results |-> rs, fatal |-> fatal]

\* run_cmd / run_agent_browser_cmd: a record with the agent's returncode, or
\* an exception of subprocess.run (agent missing, timeout)
ViaAgent(out, rs) ==
    IF out.agent = "raise" THEN Raise(rs)
    ELSE Fall([returncode |-> IF out.agent = "rc0" THEN 0 ELSE 1], rs)

\* run_cmd on a command line: shlex.split raises before the agent is called
ViaCmd(line, out, rs) == IF SplitFails(line) THEN Raise(rs) ELSE ViaAgent(out, rs)

\* Whether the options an inline assertion needs are among its tokens
AssertHasOptions(ctype, tokens) ==
    CASE ctype \in {"assert-present", "assert-absent"} ->
            "--text" \in Range(tokens) \/ "--selector" \in Range(tokens)
      [] ctype = "assert-url" -> "--contains" \in Range(tokens)
      [] ctype = "assert-count" -> "--selector" \in Range(tokens) /\ "--eq" \in Range(tokens)
      [] OTHER -> TRUE

\* The assert-* branch of execute_script
script_assert(cmd, out, rs) ==
    LET tokens == Tokens(cmd.args)
        checked == AssertHasOptions(cmd.type, tokens)
        passed == checked /\ out.agent = "rc0"
        res == [id |-> cmd.type, type |-> cmd.type, passed |-> passed,
                message |-> IF checked THEN "checked" ELSE "requires options",
                returncode |-> IF passed THEN 0 ELSE 1]
    IN  IF SplitFails(cmd.args) THEN Continue([returncode |-> 2], rs, TRUE)
        ELSE IF tokens = <<>> THEN Continue([returncode |-> 1], rs, TRUE)
        ELSE IF checked /\ out.agent = "raise" THEN Raise(rs)
        ELSE Fall(res, [rs EXCEPT !.assertions =
                            Append(@, [id |-> res.id, type |-> res.type,
                                       passed |-> res.passed, message |-> res.message,
                                       evidence |-> IF checked THEN "written" ELSE Absent])])

\* The probe branch of execute_script
script_probe(cmd, out, rs) ==
    LET tokens == Tokens(cmd.args)
    IN  IF SplitFails(cmd.args) THEN Fall([returncode |-> 2], rs)
        ELSE IF Len(tokens) < 2 THEN Fall([returncode |-> 1], rs)
        ELSE IF tokens[1] \notin {"shell", "drush"} THEN Continue([returncode |-> 1], rs, FALSE)
        ELSE IF out.agent = "raise" THEN Raise(rs)
        ELSE Fall([probe |-> tokens[2], returncode |-> IF out.agent = "rc0" THEN 0 ELSE 1], rs)

\* The extract branch of execute_script
script_extract(cmd, out, rs) ==
    LET tokens == Tokens(cmd.args)
    IN  IF SplitFails(cmd.args) THEN Fall([returncode |-> 2], rs)
        ELSE IF Len(tokens) < 2 THEN Fall([returncode |-> 1], rs)
        ELSE IF tokens[1] \in {"eval", "text"} /\ out.agent = "raise" THEN Raise(rs)
        ELSE Fall([extract |-> tokens[2]], rs)

\* The checkpoint / snapshot branch of execute_script
script_checkpoint(cmd, out, rs) ==
    LET name == IF cmd.args # "" THEN cmd.args ELSE AutoName(Len(rs.checkpoints) + 1)
        got == collect_checkpoint(
                   [name |-> name,
                    mode |-> IF cmd.type = "checkpoint" THEN "full" ELSE "snapshot",
                    include_screenshot |-> cmd.type = "checkpoint",
                    probe_cmds |-> 0],
                   out.cpenv)
    IN  IF got.raised THEN Raise(rs)
        ELSE Fall([checkpoint |-> name],
                  [rs EXCEPT !.checkpoints = Append(@, got.checkpoint)])

\* float(s) of the modelled numbers: of a script argument, and of a manifest
\* value ("number" is 2, "negative" is -1, "true" is True)
FloatOf(arg) ==
    CASE arg \in {"2", "number"} -> "2.0"
      [] arg \in {"-1", "negative"} -> "-1.0"
      [] arg = "true" -> "1.0"
      [] OTHER -> arg

\* time.sleep(seconds) and the result {"waited_seconds": seconds}; slept and
\* agent list what the branch did to the outside
LocalWait(seconds, raises, rs) ==
    IF raises THEN Raise(rs) @@ [slept |-> <<>>, agent |-> <<>>]
    ELSE Fall([waited_seconds |-> seconds], rs) @@ [slept |-> <<seconds>>, agent |-> <<>>]

\* run_cmd(f"wait {raw}", ...): the line is split by shlex and handed to the
\* agent process
AgentWait(line, out, rs) ==
    ViaCmd(line, out, rs)
       @@ [slept |-> <<>>,
           agent |-> IF SplitFails(line) THEN <<>> ELSE << <<"wait">> \o Tokens(line) >>]

\* The wait branch of execute_script: a local sleep or the agent's wait
script_wait(cmd, out, rs) ==
    IF cmd.args = "" THEN LocalWait("1.0", FALSE, rs)
    ELSE IF ParsesAsFloat(cmd.args)
         THEN LocalWait(FloatOf(cmd.args), SleepRaises(cmd.args), rs)
    ELSE AgentWait(cmd.args, out, rs)

\* The body of execute_script's try block for one command, by type
script_command(cmd, out, rs) ==
    CASE cmd.type = "open" -> ViaAgent(out, rs)
      [] cmd.type \in {"checkpoint", "snapshot"} -> script_checkpoint(cmd, out, rs)
      [] cmd.type = "screenshot" -> ViaAgent(out, rs)
      [] cmd.type = "wait" -> script_wait(cmd, out, rs)
      [] cmd.type = "expect" ->
            IF cmd.args = "" THEN Fall([returncode |-> 1], rs) ELSE ViaCmd(cmd.args, out, rs)
      [] cmd.type = "extract" -> script_extract(cmd, out, rs)
      [] cmd.type = "probe" -> script_probe(cmd, out, rs)
      [] cmd.type \in {"assert-present", "assert-absent", "assert-no-js-errors",
                       "assert-no-drupal-alerts", "assert-url", "assert-count"} ->
            script_assert(cmd, out, rs)
      [] OTHER -> ViaCmd(cmd.args, out, rs)

\* The stop check applied whatever stop_on_fail says
StopsOnAnyFailure(stop_on_fail, res) == ReturnCode(res) # 0

\* "Stop early on failures if requested": the check after a command's branch
StopsOn(stop_on_fail, res) == stop_on_fail /\ ReturnCode(res) # 0

\* Whether the loop of execute_script is left after this command
script_breaks(h, stop_on_fail) ==
    CASE h.flow = "continue" -> FALSE
      [] h.flow = "raise" -> stop_on_fail
      [] OTHER -> StopsOn(stop_on_fail, h.result)

\* Whether the command's log entry carries fatal
script_fatal(h, stop_on_fail) ==
    CASE h.flow = "continue" -> h.fatal /\ stop_on_fail
      [] h.flow = "raise" -> stop_on_fail
      [] OTHER -> StopsOn(stop_on_fail, h.result)

\* ------------------------------------------------------------------ intent_test.py execute_steps

\* A step handled without a result: its record carries error
StepError(rs) == [flow |-> "error", result |-> NoneRec, results |-> rs, fatal |-> FALSE]

\* The value of a manifest wait step as the YAML loader types it: "number"
\* (2), "negative" (-1) and "true" are instances of int or float, "str 2" is
\* the quoted string "2", "null" is None, anything else a string
IsIntOrFloat(arg) == arg \in {"number", "negative", "true"}

\* The argument as the f-string f"wait {wait_arg}" renders it
StrOfArg(arg) ==
    CASE arg = "str 2" -> "2" [] arg = "null" -> "None" [] OTHER -> arg

\* The body of execute_steps' loop for one manifest step, by its key; nothing
\* in the loop catches an exception
steps_step(step, out, rs) ==
    LET got == collect_checkpoint(
                   [name |-> step.arg, mode |-> "full", include_screenshot |-> TRUE,
                    probe_cmds |-> 0],
                   out.cpenv)
    IN  CASE step.key = "nondict" -> StepError(rs)
          [] step.key = "open" -> ViaAgent(out, rs)
          [] step.key = "wait" ->
                IF IsIntOrFloat(step.arg)
                THEN LocalWait(FloatOf(step.arg), step.arg = "negative", rs)
                ELSE AgentWait(StrOfArg(step.arg), out, rs)
          [] step.key = "checkpoint" ->
                IF got.raised THEN Raise(rs)
                ELSE Fall([checkpoint |-> step.arg],
                          [rs EXCEPT !.checkpoints = Append(@, got.checkpoint)])
          [] step.key = "action" ->
                IF step.arg # "run_ai_agent_explorer" THEN StepError(rs)
                ELSE IF out.agent = "raise" THEN Raise(rs)
                ELSE Fall([clicked |-> out.agent = "rc0"], rs)
          [] step.key = "command" ->
                ViaCmd(step.arg, out, rs)
          [] OTHER -> StepError(rs)

\* ------------------------------------------------------------------ intent/manifest.py

\* A manifest as load_manifest returns it. Each section records how it
\* appears in the file: Absent (no key), "null", or a value of some type.
\*   top              "dict" | "null" | "list"
\*   issue            Absent | "null" | "full" | "partial" | "list"
\*   intent_statement Absent | "" | "x"
\*   environment      [kind : Absent | "dict" | "null" | "list", base_url, admin_user]
\*   strategy         [kind : Absent | "dict" | "null" | "str", mode, between_cmd]
\*   steps            [kind : Absent | "list" | "null" | "str", items]
\*   assertions       [kind : Absent | "list" | "str", items]
\*   guards           a list
\*   adr              Absent | "empty" | "strs" | "ints" | "str" | "falsy"
\*                    ("falsy" is an empty value that is no list, such as "")

\* normalize_manifest raises: dict() of a list, strategy.setdefault on a
\* value that is no dict, the login_url test on an environment that is no dict
normalize_raises(raw) ==
    \/ raw.top = "list"
    \/ raw.top = "dict" /\ raw.strategy.kind \in {"null", "str"}
    \/ raw.top = "dict" /\ raw.environment.kind \in {"null", "list"}

\* normalize_manifest: the setdefault calls fill the keys that are missing
\* (a key holding null stays null), and strategy.mode defaults to single
normalize_manifest(raw) ==
    LET r == IF raw.top = "null"
             THEN [raw EXCEPT !.issue = Absent, !.intent_statement = Absent,
                              !.environment.kind = Absent, !.strategy.kind = Absent,
                              !.steps.kind = Absent, !.assertions.kind = Absent,
                              !.guards = <<>>, !.adr = Absent]
             ELSE raw
    IN  [top |-> "dict",
         issue |-> IF r.issue = Absent THEN "partial" ELSE r.issue,
         intent_statement |-> IF r.intent_statement = Absent THEN "" ELSE r.intent_statement,
         environment |->
            IF r.environment.kind = Absent
            THEN [kind |-> "dict", base_url |-> FALSE, admin_user |-> FALSE]
            ELSE r.environment,
         strategy |->
            IF r.strategy.kind = Absent
            THEN [kind |-> "dict", mode |-> "single", between_cmd |-> FALSE]
            ELSE [r.strategy EXCEPT !.mode = IF @ = Absent THEN "single" ELSE @],
         steps |-> IF r.steps.kind = Absent THEN [kind |-> "list", items |-> <<>>] ELSE r.steps,
         assertions |->
            IF r.assertions.kind = Absent THEN [kind |-> "list", items |-> <<>>]
            ELSE r.assertions,
         guards |-> r.guards,
         adr |-> IF r.adr = Absent THEN "empty" ELSE r.adr]

\* The modes validate_manifest accepts
ModeAllowedAny(mode) == TRUE
ModeAllowed(mode) == mode \in {"single", "compare"}

\* validate_manifest: one message per violated rule, in rule order
validate_manifest(m) ==
    LET e_issue == IF m.issue = "list" THEN <<"issue must be an object">>
                   ELSE IF ~(m.issue = "full") /\ m.intent_statement \in {Absent, ""}
                        THEN <<"issue.url and issue.title are required unless intent_statement is provided">>
                        ELSE <<>>
        e_env == IF m.environment.kind # "dict" THEN <<"environment must be an object">>
                 ELSE IF ~m.environment.base_url THEN <<"environment.base_url is required">>
                      ELSE <<>>
        e_strategy == IF m.strategy.kind # "dict" THEN <<"strategy must be an object">>
                      ELSE IF ~ModeAllowed(GetOr(m.strategy.mode, "single"))
                           THEN <<"strategy.mode must be 'single' or 'compare'">>
                           ELSE <<>>
        e_steps == IF m.steps.kind # "list" \/ m.steps.items = <<>>
                   THEN <<"steps must be a non-empty list">> ELSE <<>>
        e_assertions == IF m.assertions.kind = "str"
                        THEN <<"assertions must be a list">> ELSE <<>>
        e_adr == CASE m.adr = "str" -> <<"adr must be a list of strings">>
                   [] m.adr = "ints" -> <<"adr entries must be strings">>
                   [] OTHER -> <<>>
    IN  IF m.top # "dict" THEN <<"Manifest must be a mapping/object.">>
        ELSE e_issue \o e_env \o e_strategy \o e_steps \o e_assertions \o e_adr

\* load_and_validate: (manifest, errors), or the exception of normalize_manifest
load_and_validate(raw) ==
    IF normalize_raises(raw) THEN [raised |-> TRUE]
    ELSE LET m == normalize_manifest(raw)
         IN  [raised |-> FALSE, manifest |-> m, errors |-> validate_manifest(m)]

\* ------------------------------------------------------------------ bounds and inputs

MaxAssertions == 2
MaxGuards == 1
MaxInline == 1
MaxJudgeCheckpoints == 1
MaxEvalCheckpoints == 2

U1 == <<"example.com", "node", "1">>
U2 == <<"example.com", "node", "2">>

NoArtifact == [file |-> "absent"]
NoArtifacts == [ai_explorer |-> NoArtifact, drupal_messages |-> NoArtifact, errors |-> NoArtifact]

AiArtifact(final, tool) ==
    [file |-> "ok", data |-> [final_answer |-> final, tool_payload |-> tool]]

MsgArtifact(status, alert) ==
    [file |-> "ok", data |-> [status |-> status, alert |-> alert]]

LogArtifact(data) == [file |-> "ok", parsed |-> "dict_with_data", data |-> data]

\* An assertion with no optional field set
A0(type) ==
    [id |-> type, type |-> type, severity |-> Absent, checkpoint |-> Absent,
     scope |-> Absent, patterns |-> <<>>, path |-> <<>>, expected |-> NoneV,
     level |-> Absent, contains |-> <<>>]

Severities == {Absent, "fail", "warn"}

\* Manifest entries given to judge(): a url check that passes or fails with
\* the run, and an entry of unknown type, under each severity
JudgeAssertions ==
    { [[A0(t) EXCEPT !.severity = sv] EXCEPT !.contains = <<"node", "1">>] :
        t \in {"url_contains", "bogus"}, sv \in Severities }

JudgeCheckpoints ==
    { [name |-> "a", url |-> u, artifacts |-> NoArtifacts] : u \in {U1, U2} }

InlineResults ==
    { [id |-> "assert-url-1", type |-> "assert-url", passed |-> b, message |-> "url contains"] :
        b \in BOOLEAN }

\* Evidence of a checkpoint, by content
EvalEvidence ==
    { [url |-> U1,
       artifacts |-> [ai_explorer |-> AiArtifact(<<"h", "g">>, <<"k", ": ", "v">>),
                      drupal_messages |-> MsgArtifact(NoneT, <<"B">>),
                      errors |-> LogArtifact([kind |-> "list", items |-> <<"e">>])]],
      [url |-> U2,
       artifacts |-> [ai_explorer |-> AiArtifact(<<"o", "k">>, <<"[", "k">>),
                      drupal_messages |-> MsgArtifact(<<"h", "g">>, NoneT),
                      errors |-> LogArtifact([kind |-> "dict",
                                              items_by_key |-> [x \in {"errors"} |-> <<>>]])]],
      [url |-> U1,
       artifacts |-> [ai_explorer |-> AiArtifact(<<"o", "k">>, <<"k", ": ", "- ", "v">>),
                      drupal_messages |-> [file |-> "unreadable"],
                      errors |-> LogArtifact([kind |-> "scalar", truthy |-> TRUE])]],
      [url |-> NoneT, artifacts |-> NoArtifacts] }

EvalCheckpoints ==
    { [name |-> n, url |-> e.url, artifacts |-> e.artifacts] :
        n \in {"a", "b"}, e \in EvalEvidence }

CheckpointRefs == {Absent, "a", "zz"}

\* Assertions given to evaluate_assertion(): every type, with the fields its
\* branch reads, against each way of naming the checkpoint; the pattern <<>>
\* is one that matches every text, the empty one included (such as `x*`)
EvalAssertions ==
    LET text == { [[[A0(t) EXCEPT !.scope = sc] EXCEPT !.patterns = ps]
                     EXCEPT !.severity = "fail"] :
                    t \in {"text_absent", "text_present"},
                    sc \in {"final_answer", "tool_call", "drupal_status", "drupal_alert", Absent},
                    ps \in { <<<<"h", "g">>>>, <<<<"(">>, <<"k">>>>, <<<<>>>> } }
        yaml == { [[A0("yaml_path_equals") EXCEPT !.path = pt] EXCEPT !.expected = ex] :
                    pt \in { <<[t |-> "key", key |-> "k"]>>,
                             <<[t |-> "empty"], [t |-> "idx", key |-> "k", idx |-> 0]>>,
                             <<[t |-> "bad"]>> },
                    ex \in { Scalar("v"), NoneV } }
        others == { A0("no_console_errors"),
                    A0("no_drupal_messages"),
                    [A0("no_drupal_messages") EXCEPT !.level = "status"],
                    [A0("url_contains") EXCEPT !.contains = <<"node", "1">>],
                    [A0("bogus") EXCEPT !.severity = "warn"] }
    IN  { [a EXCEPT !.checkpoint = c] : a \in text \cup yaml \cup others, c \in CheckpointRefs }

\* ------------------------------------------------------------------ judge()

InitJudge ==
    /\ manifest \in [assertions : SeqUpTo(JudgeAssertions, MaxAssertions),
                     guards : SeqUpTo(JudgeAssertions, MaxGuards)]
    /\ run \in [checkpoints : SeqUpTo(JudgeCheckpoints, MaxJudgeCheckpoints),
                assertions : SeqUpTo(InlineResults, MaxInline)]
    /\ verdict = NoVerdict
    /\ EvalIdle
    /\ CollectIdle
    /\ InterpIdle
    /\ MainIdle
    /\ CallIdle

\* verdict = judge(manifest, run)
Judge ==
    /\ verdict = NoVerdict
    /\ verdict' = judge(manifest, run)
    /\ UNCHANGED <<manifest, run, evalVars, collectVars, interpVars, mainVars, callVars>>

NextJudge == Judge

SpecJudge == InitJudge /\ [][NextJudge]_vars

\* ------------------------------------------------------------------ evaluate_assertion()

InitEval ==
    /\ assertion \in EvalAssertions
    /\ run \in [checkpoints : SeqUpTo(EvalCheckpoints, MaxEvalCheckpoints),
                assertions : {<<>>}]
    /\ result = NoResult
    /\ resolved = NoneRec
    /\ cpIndex = NoIndex
    /\ JudgeIdle
    /\ CollectIdle
    /\ InterpIdle
    /\ MainIdle
    /\ CallIdle

\* result = evaluate_assertion(assertion, run)
Evaluate ==
    /\ result = NoResult
    /\ result' = evaluate_assertion(assertion, run)
    /\ resolved' = get_checkpoint(run, assertion.checkpoint)
    /\ UNCHANGED <<assertion, run, cpIndex, judgeVars, collectVars, interpVars, mainVars, callVars>>

\* compare_runs.main building the name index over one run's checkpoints
BuildIndex ==
    /\ cpIndex = NoIndex
    /\ cpIndex' = [built |-> TRUE, by_name |-> checkpoint_index(run.checkpoints)]
    /\ UNCHANGED <<assertion, run, result, resolved, judgeVars, collectVars, interpVars, mainVars, callVars>>

NextEval == Evaluate \/ BuildIndex

SpecEval == InitEval /\ [][NextEval]_vars

\* ------------------------------------------------------------------ claims on judge()

Judged == verdict # NoVerdict

\* Positions of the evaluated list holding fail-severity results
FailSeverity == { i \in 1..Len(verdict.assertions) : verdict.assertions[i].severity = "fail" }

\* Positions of the evaluated list holding warn-severity results
WarnSeverity == { i \in 1..Len(verdict.assertions) : verdict.assertions[i].severity = "warn" }

StatusAt(i) == verdict.assertions[i].status

\* C1: ERROR dominates FAIL dominates PASS over the fail-severity assertions:
\* a fail-severity ERROR gives verdict ERROR; otherwise a fail-severity FAIL
\* gives verdict FAIL; the verdict is never PASS while a fail-severity
\* assertion is FAIL or ERROR.
C1_VerdictPrecedence ==
    Judged =>
        /\ (\E i \in FailSeverity : StatusAt(i) = "ERROR") => verdict.verdict = "ERROR"
        /\ ( /\ ~ \E i \in FailSeverity : StatusAt(i) = "ERROR"
             /\ \E i \in FailSeverity : StatusAt(i) = "FAIL" ) => verdict.verdict = "FAIL"
        /\ (\E i \in FailSeverity : StatusAt(i) \in {"FAIL", "ERROR"}) => verdict.verdict # "PASS"

\* C2: warn-severity assertions never block the verdict: when every
\* fail-severity assertion passes, the verdict is PASS and ready_to_submit is
\* true whatever the status of the warn-severity assertions.
C2_WarnNeverBlocks ==
    (Judged /\ \A i \in FailSeverity : StatusAt(i) = "PASS") =>
        verdict.verdict = "PASS" /\ verdict.ready_to_submit

\* C4: ready_to_submit is true iff the verdict is PASS; a non-empty failures
\* list or a non-empty errors list implies ready_to_submit is false.
C4_ReadyIffPass ==
    Judged =>
        /\ verdict.ready_to_submit <=> verdict.verdict = "PASS"
        /\ (verdict.failures # <<>> \/ verdict.errors # <<>>) => ~verdict.ready_to_submit

\* A verdict with a failure and no error: FAIL, not ready
C4_Witness ==
    /\ Judged
    /\ verdict.failures # <<>>
    /\ verdict.errors = <<>>
    /\ verdict.verdict = "FAIL"
    /\ ~verdict.ready_to_submit

\* Positions of the evaluated list holding the manifest's guards
GuardPositions == (Len(manifest.assertions) + 1)..(Len(manifest.assertions) + Len(manifest.guards))

\* C6: guards carry implicit fail severity: a guard evaluated to FAIL forces
\* verdict FAIL (ERROR if something errored) and ready_to_submit false,
\* whatever severity field the guard entry itself carries or omits.
C6_GuardsAreFailSeverity ==
    (Judged /\ \E g \in GuardPositions : StatusAt(g) = "FAIL") =>
        /\ verdict.verdict \in {"FAIL", "ERROR"}
        /\ verdict.errors = <<>> => verdict.verdict = "FAIL"
        /\ ~verdict.ready_to_submit

\* ------------------------------------------------------------------ claims on evaluate_assertion()

Evaluated == result # NoResult

KnownTypes ==
    {"text_absent", "text_present", "yaml_path_equals", "no_console_errors",
     "no_drupal_messages", "url_contains"}

RunNames == { run.checkpoints[i].name : i \in 1..Len(run.checkpoints) }

\* The assertion names a checkpoint that the run does not hold
NamesMissingCheckpoint == Truthy(assertion.checkpoint) /\ assertion.checkpoint \notin RunNames

\* The tool payload of the resolved checkpoint is not parseable structured data
PayloadMalformed ==
    /\ resolved # NoneRec
    /\ resolved.artifacts.ai_explorer.file = "ok"
    /\ "[" \in Range(resolved.artifacts.ai_explorer.data.tool_payload)

\* C3: a judging error is reported as ERROR, never as FAIL or PASS: a
\* checkpoint name that is not in the run, a run without checkpoints, an
\* unrecognized type, or (yaml_path_equals) an unparseable tool payload gives
\* status ERROR and passed false.
C3_JudgingErrorsAreErrors ==
    ( /\ Evaluated
      /\ \/ NamesMissingCheckpoint
         \/ run.checkpoints = <<>>
         \/ assertion.type \notin KnownTypes
         \/ assertion.type = "yaml_path_equals" /\ PayloadMalformed )
    => result.status = "ERROR" /\ ~result.passed

\* A known-type assertion naming a checkpoint that a non-empty run lacks
C3_Witness ==
    /\ Evaluated
    /\ NamesMissingCheckpoint
    /\ run.checkpoints # <<>>
    /\ assertion.type \in KnownTypes
    /\ result.status = "ERROR"

\* The checkpoint captured last under a name
LastNamed(checkpoints, n) ==
    checkpoints[CHOOSE i \in 1..Len(checkpoints) :
                    /\ checkpoints[i].name = n
                    /\ \A j \in (i + 1)..Len(checkpoints) : checkpoints[j].name # n]

\* C5: lookup by name is last-write-wins: the Judge's get_checkpoint and the
\* paired report's name index both resolve a name to the checkpoint captured
\* last under it.
C5_LastWriteWins ==
    /\ (Evaluated /\ assertion.checkpoint \in RunNames) =>
            resolved = LastNamed(run.checkpoints, assertion.checkpoint)
    /\ cpIndex # NoIndex =>
            \A n \in DOMAIN cpIndex.by_name :
                cpIndex.by_name[n] = LastNamed(run.checkpoints, n)

\* ------------------------------------------------------------------ collect_checkpoint()

MaxProbes == 2

CaptureKinds == {"snapshot", "screenshot", "console", "errors", "drupal_messages", "ai_explorer"}

\* What a collector can do when called: return a record, return a record
\* with a non-zero returncode, or raise (timeout, agent missing, disk error)
CaptureOutcomes == {"ok", "rc", "raise"}

InitCollect ==
    /\ cpArgs \in [name : {"a"}, mode : {"full", "snapshot", "none"},
                   include_screenshot : BOOLEAN, probe_cmds : 0..MaxProbes]
    /\ cpEnv \in [url : ProcOutcomes,
                  snapshot : CaptureOutcomes, screenshot : {"ok", "raise"},
                  console : CaptureOutcomes, errors : CaptureOutcomes,
                  drupal_messages : {"ok", "raise"}, ai_explorer : {"ok", "raise"},
                  probes : [1..MaxProbes -> {"ok", "raise"}]]
    /\ cpOut = NoneRec
    /\ JudgeIdle /\ run = NoneRec
    /\ EvalIdle
    /\ InterpIdle
    /\ MainIdle
    /\ CallIdle

\* cpOut = collect_checkpoint(...)
CollectCheckpoint ==
    /\ cpOut = NoneRec
    /\ cpOut' = collect_checkpoint(cpArgs, cpEnv)
    /\ UNCHANGED <<cpArgs, cpEnv, run, judgeVars, evalVars, interpVars, mainVars, callVars>>

NextCollect == CollectCheckpoint

SpecCollect == InitCollect /\ [][NextCollect]_vars

\* The evidence kinds that apply to a mode
Applicable(kind) ==
    CASE kind \in {"console", "errors"} -> TRUE
      [] kind = "snapshot" -> cpArgs.mode \in {"full", "snapshot"}
      [] kind = "screenshot" -> cpArgs.mode = "full" /\ cpArgs.include_screenshot
      [] OTHER -> cpArgs.mode = "full"

\* The captures that apply to the call: the kinds of the mode and each probe
ApplicableCaptures ==
    { [kind |-> k, idx |-> 0] : k \in { k \in CaptureKinds : Applicable(k) } }
    \cup { [kind |-> "probe", idx |-> i] :
             i \in IF cpArgs.mode = "full" THEN 1..cpArgs.probe_cmds ELSE {} }

\* What the environment does to one capture
OutcomeOf(cap) == IF cap.kind = "probe" THEN cpEnv.probes[cap.idx] ELSE cpEnv[cap.kind]

Occurrences(seq, x) == Cardinality({ i \in 1..Len(seq) : seq[i] = x })

\* C10: partial-failure isolation: whatever subset of the applicable captures
\* fails, collect_checkpoint returns a checkpoint, every applicable capture
\* was attempted (once), and errors holds one entry for each failed capture
\* and none for the others.
C10_PartialFailureIsolation ==
    (cpOut # NoneRec /\ ~SubprocessRaises(cpEnv.url)) =>
        /\ ~cpOut.raised
        /\ \A cap \in ApplicableCaptures :
              /\ Occurrences(cpOut.checkpoint.calls, cap) = 1
              /\ Occurrences(cpOut.checkpoint.errors, cap)
                    = IF OutcomeOf(cap) = "raise" THEN 1 ELSE 0

\* A full checkpoint whose snapshot and first probe fail while a later
\* capture succeeds
C10_Witness ==
    /\ cpOut # NoneRec
    /\ cpArgs.mode = "full" /\ cpArgs.probe_cmds = MaxProbes
    /\ cpEnv.url = "ok" /\ cpEnv.snapshot = "raise" /\ cpEnv.probes[1] = "raise"
    /\ cpEnv.ai_explorer = "ok" /\ cpEnv.probes[MaxProbes] = "ok"
    /\ ~cpOut.raised
    /\ "ai_explorer" \in cpOut.checkpoint.artifacts
    /\ "probes" \in cpOut.checkpoint.artifacts
    /\ Len(cpOut.checkpoint.errors) >= 2

\* C11: transport errors are data: whatever the agent process does (cannot
\* start, times out, exits non-zero, prints non-JSON), run_agent_browser
\* returns a record with a non-zero returncode or parsed_error and never
\* raises, so the URL lookup cannot abort collect_checkpoint.
C11_TransportErrorsAreData ==
    cpOut # NoneRec =>
        LET r == run_agent_browser(cpEnv.url, TRUE)
        IN  /\ ~r.raised
            /\ cpEnv.url # "ok" =>
                  r.rec.returncode # 0 \/ "parsed_error" \in DOMAIN r.rec
            /\ ~cpOut.raised

\* ------------------------------------------------------------------ the step interpreters

MaxSteps == 3

AgentOutcomes == {"rc0", "rc1", "raise"}

\* Every capture of a checkpoint succeeds
EnvAllOk ==
    [url |-> "ok", snapshot |-> "ok", screenshot |-> "ok", console |-> "ok",
     errors |-> "ok", drupal_messages |-> "ok", ai_explorer |-> "ok",
     probes |-> [i \in 1..MaxProbes |-> "ok"]]

\* What a checkpoint step meets: success, a URL lookup that raises, a snapshot that raises
CheckpointEnvs ==
    {EnvAllOk, [EnvAllOk EXCEPT !.url = "timeout"], [EnvAllOk EXCEPT !.snapshot = "raise"]}

\* What the outside world does during one step
StepOutcomes(isCheckpoint) ==
    IF isCheckpoint THEN { [agent |-> "rc0", cpenv |-> e] : e \in CheckpointEnvs }
    ELSE { [agent |-> a, cpenv |-> EnvAllOk] : a \in AgentOutcomes }

\* Script lines as parse_script yields them (type, args)
ScriptCommands ==
    { [type |-> "open", args |-> "/a"],
      [type |-> "checkpoint", args |-> "a"],
      [type |-> "checkpoint", args |-> ""],
      [type |-> "wait", args |-> "2"],
      [type |-> "probe", args |-> "shell p -- ls"],
      [type |-> "probe", args |-> "bogus p"],
      [type |-> "assert-url", args |-> "--contains x"],
      [type |-> "assert-url", args |-> "'unbalanced"],
      [type |-> "assert-no-js-errors", args |-> ""] }

\* Manifest steps (the key that selects the branch, and its value)
ManifestSteps ==
    { [key |-> "open", arg |-> "/a"],
      [key |-> "wait", arg |-> "number"],
      [key |-> "checkpoint", arg |-> "a"],
      [key |-> "checkpoint", arg |-> "b"],
      [key |-> "command", arg |-> "click @e1"],
      [key |-> "action", arg |-> "zzz"],
      [key |-> "nondict", arg |-> "5"] }

NewResults == [log |-> <<>>, checkpoints |-> <<>>, assertions |-> <<>>]

InitInterp ==
    /\ script \in
          [interp : {"execute_script"}, stop_on_fail : BOOLEAN,
           steps : SeqUpTo(ScriptCommands, MaxSteps)]
          \cup [interp : {"execute_steps"}, stop_on_fail : {FALSE},
                steps : SeqUpTo(ManifestSteps, MaxSteps)]
    /\ ipc = [i |-> 1, state |-> "running"]
    /\ results = NewResults
    /\ executed = <<>>
    /\ raisedAt = {}
    /\ JudgeIdle /\ run = NoneRec
    /\ EvalIdle
    /\ CollectIdle
    /\ MainIdle
    /\ CallIdle

\* One iteration of execute_script's loop: the command's branch, the stop
\* check or the except clause, and the append to results["commands"]
ScriptIter ==
    /\ script.interp = "execute_script"
    /\ ipc.state = "running"
    /\ ipc.i <= Len(script.steps)
    /\ LET cmd == script.steps[ipc.i]
       IN  \E out \in StepOutcomes(cmd.type \in {"checkpoint", "snapshot"}) :
             LET h == script_command(cmd, out, results)
                 entry == [index |-> ipc.i, command |-> cmd, result |-> h.result,
                           error |-> h.flow = "raise",
                           fatal |-> script_fatal(h, script.stop_on_fail)]
             IN  /\ results' = [h.results EXCEPT !.log = Append(@, entry)]
                 /\ ipc' = IF script_breaks(h, script.stop_on_fail)
                           THEN [i |-> ipc.i, state |-> "returned"]
                           ELSE [i |-> ipc.i + 1, state |-> "running"]
                 /\ executed' = Append(executed, ipc.i)
                 /\ raisedAt' = IF h.flow = "raise" THEN raisedAt \cup {ipc.i} ELSE raisedAt
    /\ UNCHANGED <<script, run, judgeVars, evalVars, collectVars, mainVars, callVars>>

\* One iteration of execute_steps' loop: the step's branch and the append to
\* results["steps"]; an exception leaves execute_steps
StepsIter ==
    /\ script.interp = "execute_steps"
    /\ ipc.state = "running"
    /\ ipc.i <= Len(script.steps)
    /\ LET step == script.steps[ipc.i]
       IN  \E out \in StepOutcomes(step.key = "checkpoint") :
             LET h == steps_step(step, out, results)
                 entry == [index |-> ipc.i, command |-> step, result |-> h.result,
                           error |-> h.flow = "error", fatal |-> FALSE]
             IN  /\ results' = IF h.flow = "raise" THEN results
                               ELSE [h.results EXCEPT !.log = Append(@, entry)]
                 /\ ipc' = IF h.flow = "raise"
                           THEN [i |-> ipc.i, state |-> "raised"]
                           ELSE [i |-> ipc.i + 1, state |-> "running"]
                 /\ executed' = Append(executed, ipc.i)
                 /\ raisedAt' = IF h.flow = "raise" THEN raisedAt \cup {ipc.i} ELSE raisedAt
    /\ UNCHANGED <<script, run, judgeVars, evalVars, collectVars, mainVars, callVars>>

\* The loop is exhausted: results["completed"] is set and results returned
InterpReturn ==
    /\ ipc.state = "running"
    /\ ipc.i > Len(script.steps)
    /\ ipc' = [ipc EXCEPT !.state = "returned"]
    /\ UNCHANGED <<script, results, executed, raisedAt, run, judgeVars, evalVars, collectVars, mainVars, callVars>>

NextInterp == ScriptIter \/ StepsIter \/ InterpReturn

SpecInterp == InitInterp /\ [][NextInterp]_vars

\* ------------------------------------------------------------------ claims on the interpreters

\* A log entry of a step that failed: it raised, or its result carries a
\* non-zero returncode
EntryFailed(e) == e.index \in raisedAt \/ ReturnCode(e.result) # 0

\* C7: execute_script with stop_on_fail: as soon as a step fails (non-zero
\* returncode in its result, or the step raises) no later step is executed,
\* the failing step is marked fatal, and it is the last entry of the log.
C7_StopOnFail ==
    (script # NoneRec /\ script.interp = "execute_script" /\ script.stop_on_fail) =>
        \A k \in 1..Len(results.log) :
            EntryFailed(results.log[k]) =>
                /\ results.log[k].fatal
                /\ k = Len(results.log)
                /\ \A j \in 1..Len(executed) : executed[j] <= results.log[k].index

\* The interpreter returned and ran without stop-on-fail
ReturnedWithoutStop ==
    /\ script # NoneRec
    /\ ipc.state = "returned"
    /\ script.interp = "execute_steps" \/ ~script.stop_on_fail

\* Names of the checkpoint steps that the log records as captured, in log order
RECURSIVE CapturedNames(_)
CapturedNames(log) ==
    IF log = <<>> THEN <<>>
    ELSE LET rest == CapturedNames(SubSeq(log, 1, Len(log) - 1))
             last == log[Len(log)]
         IN  IF "checkpoint" \in DOMAIN last.result
             THEN Append(rest, last.result.checkpoint) ELSE rest

\* Steps of the input that are checkpoint (or snapshot) steps
IsCheckpointStep(st) ==
    IF script.interp = "execute_script"
    THEN st.type \in {"checkpoint", "snapshot"} ELSE st.key = "checkpoint"

C9_ErrorsNeverPropagate ==
    script # NoneRec =>
        /\ ipc.state # "raised"
        /\ \A i \in raisedAt :
              /\ \E k \in 1..Len(results.log) :
                    results.log[k].index = i /\ results.log[k].error
              /\ script.stop_on_fail => ipc.state = "returned" /\ ipc.i = i
              /\ ~script.stop_on_fail => ipc.i > i

\* ------------------------------------------------------------------ intent_test.py run_manifest, main; judge_intent.py main

MaxMainSteps == 2

\* build_login_steps: six steps when environment.admin_user is set
build_login_steps(env) ==
    IF ~env.admin_user THEN <<>>
    ELSE << [key |-> "open", arg |-> "/user/login"],
            [key |-> "wait", arg |-> "--load networkidle"],
            [key |-> "command", arg |-> "find label Username fill admin"],
            [key |-> "command", arg |-> "find label Password fill pw"],
            [key |-> "command", arg |-> "find role button click --name 'Log in'"],
            [key |-> "wait", arg |-> "--load networkidle"] >>

\* run_manifest: all_steps = build_login_steps(env) + steps
all_steps(m) == build_login_steps(m.environment) \o m.steps.items

\* Both runs of a pair executed under one session
SessionShared(program, runName) == "intent"

\* The session each run is executed under: run_manifest names intent,
\* intent_baseline, intent_modified; compare_runs.main baseline, modified
SessionOf(program, runName) ==
    CASE program = "compare_runs" -> runName
      [] runName = "single" -> "intent"
      [] runName = "baseline" -> "intent_baseline"
      [] OTHER -> "intent_modified"

\* runs.get(name): the results stored under the name, None without it
RunNamed(rs, name) ==
    LET hits == { i \in 1..Len(rs) : rs[i].name = name }
    IN  IF hits = {} THEN NoneRec ELSE rs[CHOOSE i \in hits : TRUE].results

\* A checkpoint as the judge reads it back: name, url and the artifact files
PersistedCheckpoint(cp) ==
    [name |-> cp.name, url |-> cp.url,
     artifacts |->
        [ai_explorer |-> IF "ai_explorer" \in cp.artifacts
                         THEN AiArtifact(<<>>, <<>>) ELSE NoArtifact,
         drupal_messages |-> IF "drupal_messages" \in cp.artifacts
                             THEN MsgArtifact(NoneT, NoneT) ELSE NoArtifact,
         errors |-> IF "errors" \in cp.artifacts
                    THEN LogArtifact([kind |-> "list", items |-> <<>>]) ELSE NoArtifact]]

\* A run as judge() reads it; {} has neither checkpoints nor assertions
PersistedRun(res) ==
    IF res = NoneRec THEN [checkpoints |-> <<>>, assertions |-> <<>>]
    ELSE [checkpoints |-> [i \in 1..Len(res.checkpoints) |->
                              PersistedCheckpoint(res.checkpoints[i])],
          assertions |-> res.assertions]

\* main: runs.get(judge_run) or runs.get("single") or {}
JudgedRun(rs, judge_run) ==
    IF RunNamed(rs, judge_run) # NoneRec THEN RunNamed(rs, judge_run)
    ELSE RunNamed(rs, "single")

\* The part of the manifest judge() reads
JudgeView(m) == [assertions |-> m.assertions.items, guards |-> m.guards]

\* main's return value for a verdict
ExitOf(v) == CASE v.verdict = "PASS" -> 0 [] v.verdict = "FAIL" -> 1 [] OTHER -> 2

\* A process that ends by return (sys.exit(main())) or by an uncaught exception
Returned(code) == [code |-> code, uncaught |-> FALSE]
Uncaught == [code |-> 1, uncaught |-> TRUE]

\* What the outside world does to the n-th step of the invocation: the
\* invocation's fault hits one step, every other step succeeds
FaultOutcome(fault, n) ==
    IF fault.at # n THEN [agent |-> "rc0", cpenv |-> EnvAllOk]
    ELSE IF fault.how = "raise"
         THEN [agent |-> "raise", cpenv |-> [EnvAllOk EXCEPT !.url = "timeout"]]
         ELSE [agent |-> "rc1", cpenv |-> [EnvAllOk EXCEPT !.snapshot = "raise"]]

\* Whether a manifest step reaches the agent process
StepReachesAgent(step) ==
    CASE step.key \in {"open", "checkpoint"} -> TRUE
      [] step.key = "wait" -> step.arg \notin {"number", "negative"}
      [] step.key = "command" -> ~SplitFails(step.arg)
      [] step.key = "action" -> step.arg = "run_ai_agent_explorer"
      [] OTHER -> FALSE

\* Steps a manifest of the model may list
MainStepPool ==
    { [key |-> "open", arg |-> "/a"],
      [key |-> "checkpoint", arg |-> "a"],
      [key |-> "action", arg |-> "zzz"] }

\* Assertion lists of the manifest: none, a url check that the captured
\* checkpoint passes, and one that it fails
MainAssertionLists ==
    { <<>>,
      << [A0("url_contains") EXCEPT !.contains = <<"node", "1">>] >>,
      << [A0("url_contains") EXCEPT !.contains = <<"node", "2">>] >> }

\* Manifest files: valid ones in both modes, and ones that break a rule of
\* validate_manifest or make normalize_manifest raise
RawManifests ==
    [top : {"dict"},
     issue : {"full", Absent},
     intent_statement : {""},
     environment : { [kind |-> "dict", base_url |-> TRUE, admin_user |-> FALSE],
                     [kind |-> "dict", base_url |-> TRUE, admin_user |-> TRUE],
                     [kind |-> "dict", base_url |-> FALSE, admin_user |-> FALSE],
                     [kind |-> "list", base_url |-> FALSE, admin_user |-> FALSE] },
     strategy : { [kind |-> "dict", mode |-> Absent, between_cmd |-> FALSE],
                  [kind |-> "dict", mode |-> "compare", between_cmd |-> FALSE],
                  [kind |-> "dict", mode |-> "compare", between_cmd |-> TRUE],
                  [kind |-> "dict", mode |-> "bogus", between_cmd |-> FALSE],
                  [kind |-> "str", mode |-> Absent, between_cmd |-> FALSE] },
     steps : { [kind |-> "list", items |-> st] : st \in SeqUpTo(MainStepPool, MaxMainSteps) }
             \cup { [kind |-> Absent, items |-> <<>>] },
     assertions : { [kind |-> "list", items |-> a] : a \in MainAssertionLists },
     guards : {<<>>},
     adr : {"empty", "ints"}]

\* The invocation's fault: none, or the n-th step of the invocation meets an
\* agent that answers with a non-zero returncode or cannot be run
Faults ==
    { [at |-> 0, how |-> "none"] }
    \cup [at : 1..(2 * (6 + MaxMainSteps)), how : {"rc1", "raise"}]

\* The run file given to judge_intent: unreadable, {}, {"runs": {}}, a bare
\* run, or runs by name; top is the payload read as a run
RunPayloads ==
    LET R(u) == [checkpoints |-> <<[name |-> "a", url |-> u, artifacts |-> NoArtifacts]>>,
                 assertions |-> <<>>]
        E == [checkpoints |-> <<>>, assertions |-> <<>>]
    IN  { [kind |-> "unreadable"],
          [kind |-> "ok", empty |-> TRUE, runs |-> <<>>, top |-> E],
          [kind |-> "ok", empty |-> FALSE, runs |-> <<>>, top |-> E],
          [kind |-> "ok", empty |-> FALSE, runs |-> <<>>, top |-> R(U1)],
          [kind |-> "ok", empty |-> FALSE,
           runs |-> <<[name |-> "single", results |-> R(U1)]>>, top |-> E],
          [kind |-> "ok", empty |-> FALSE,
           runs |-> <<[name |-> "baseline", results |-> R(U1)],
                      [name |-> "modified", results |-> R(U2)]>>, top |-> E] }

\* Script lines a scenario of the model may hold
MainCommandPool ==
    { [type |-> "open", args |-> "/a"],
      [type |-> "checkpoint", args |-> "a"],
      [type |-> "probe", args |-> "bogus p"] }

\* Whether a script command reaches the agent process
CommandReachesAgent(cmd) ==
    CASE cmd.type \in {"open", "checkpoint", "snapshot", "screenshot"} -> TRUE
      [] cmd.type = "wait" -> cmd.args # "" /\ ~ParsesAsFloat(cmd.args) /\ ~SplitFails(cmd.args)
      [] cmd.type = "probe" -> FALSE
      [] OTHER -> ~SplitFails(cmd.args)

\* An event of the issued history
Event(kind, program, runName, index, agent) ==
    [kind |-> kind, run |-> runName, session |-> SessionOf(program, runName),
     index |-> index, agent |-> agent]

\* A shell command of main (before, between): not bound to a session
ShellEvent(name) ==
    [kind |-> "shell", run |-> name, session |-> "none", index |-> 0, agent |-> FALSE]

\* Commands main issues outside execute_script, one after the other, the
\* first being the n-th of the invocation; an agent command that cannot be
\* run raises out of main
IssueAll(evs, fault, n) ==
    LET bad == { k \in 1..Len(evs) :
                    evs[k].agent /\ fault.how = "raise" /\ fault.at = n + k - 1 }
    IN  IF bad = {} THEN [raised |-> FALSE, issued |-> evs]
        ELSE [raised |-> TRUE,
              issued |-> SubSeq(evs, 1, CHOOSE k \in bad : \A j \in bad : k <= j)]

InitMain ==
    /\ prog \in [name : {"intent_test"}, raw : RawManifests, judge_run : {"modified", "baseline"}]
                \cup [name : {"judge_intent"}, raw : RawManifests, judge_run : {"modified"},
                      payload : RunPayloads]
                \cup [name : {"compare_runs"},
                      commands : SeqUpTo(MainCommandPool, MaxMainSteps),
                      stop_on_fail : BOOLEAN, before_cmd : BOOLEAN, between_cmd : BOOLEAN,
                      trace : BOOLEAN]
    /\ pc = [at |-> "start"]
    /\ runs = <<>>
    /\ issued = <<>>
    /\ written = {}
    /\ exitCode = NoneRec
    /\ manifest = NoneRec /\ run = NoneRec /\ verdict = NoVerdict
    /\ EvalIdle
    /\ CollectIdle
    /\ InterpIdle
    /\ CallIdle

\* `if errors:` letting a single error through
ErrorsBlockWhenSeveral(errors) == Len(errors) > 1

\* `if errors:` after load_and_validate
ErrorsBlock(errors) == errors # <<>>

\* main of intent_test and of judge_intent up to the validation check:
\* load_and_validate, `return 2` on errors; intent_test then enters
\* run_manifest and starts its first run
MainLoad ==
    /\ pc.at = "start"
    /\ prog.name \in {"intent_test", "judge_intent"}
    /\ LET lv == load_and_validate(prog.raw)
       IN  IF lv.raised
           THEN /\ exitCode' = Uncaught
                /\ pc' = [at |-> "exited"]
                /\ UNCHANGED <<manifest, runs, callVars>>
           ELSE IF ErrorsBlock(lv.errors)
           THEN /\ exitCode' = Returned(2)
                /\ pc' = [at |-> "exited"]
                /\ manifest' = lv.manifest
                /\ UNCHANGED runs
           ELSE /\ exitCode' = exitCode
                /\ manifest' = lv.manifest
                /\ IF prog.name = "judge_intent"
                   THEN pc' = [at |-> "judge"] /\ UNCHANGED runs
                   ELSE LET first == IF lv.manifest.strategy.mode = "single"
                                     THEN "single" ELSE "baseline"
                        IN  /\ \E f \in Faults :
                                  pc' = [at |-> "steps", run |-> first, i |-> 1, n |-> 1,
                                         fault |-> f]
                            /\ runs' = <<[name |-> first, results |-> NewResults]>>
    /\ UNCHANGED <<prog, issued, written, run, verdict, evalVars, collectVars, interpVars, callVars>>

\* One iteration of execute_steps inside run_manifest; an exception of the
\* step leaves execute_steps, run_manifest and main
RunStep ==
    /\ pc.at = "steps"
    /\ pc.i <= Len(all_steps(manifest))
    /\ LET step == all_steps(manifest)[pc.i]
           cur == runs[Len(runs)].results
           h == steps_step(step, FaultOutcome(pc.fault, pc.n), cur)
           entry == [index |-> pc.i, command |-> step, result |-> h.result,
                     error |-> h.flow = "error", fatal |-> FALSE]
       IN  /\ issued' = Append(issued, [kind |-> "step", run |-> pc.run,
                                        session |-> SessionOf(prog.name, pc.run),
                                        index |-> pc.i,
                                        agent |-> StepReachesAgent(step)])
           /\ IF h.flow = "raise"
              THEN /\ exitCode' = Uncaught
                   /\ pc' = [at |-> "exited"]
                   /\ UNCHANGED runs
              ELSE /\ exitCode' = exitCode
                   /\ pc' = [pc EXCEPT !.i = @ + 1, !.n = @ + 1]
                   /\ runs' = [runs EXCEPT ![Len(runs)].results =
                                  [h.results EXCEPT !.log = Append(@, entry)]]
    /\ UNCHANGED <<prog, written, manifest, run, verdict, evalVars, collectVars, interpVars, callVars>>

\* execute_steps returns: run_manifest stores the run; after the baseline
\* it runs between_cmd (if set) and starts the modified run
RunEnd ==
    /\ pc.at = "steps"
    /\ pc.i > Len(all_steps(manifest))
    /\ IF pc.run = "baseline"
       THEN /\ issued' = IF manifest.strategy.between_cmd
                         THEN Append(issued, [kind |-> "shell", run |-> "between",
                                              session |-> "none", index |-> 0,
                                              agent |-> FALSE])
                         ELSE issued
            /\ runs' = Append(runs, [name |-> "modified", results |-> NewResults])
            /\ pc' = [pc EXCEPT !.run = "modified", !.i = 1]
       ELSE /\ pc' = [at |-> "write"]
            /\ UNCHANGED <<issued, runs, callVars>>
    /\ UNCHANGED <<prog, written, exitCode, manifest, run, verdict,
                   evalVars, collectVars, interpVars, callVars>>

\* intent_test.main after run_manifest: write the run file, judge the chosen
\* run, write the verdict file, return the verdict's exit code
MainFinish ==
    /\ pc.at = "write"
    /\ LET judged == PersistedRun(JudgedRun(runs, prog.judge_run))
           v == judge(JudgeView(manifest), judged)
       IN  /\ run' = judged
           /\ verdict' = v
           /\ exitCode' = Returned(ExitOf(v))
    /\ written' = {"run", "verdict"}
    /\ pc' = [at |-> "exited"]
    /\ UNCHANGED <<prog, runs, issued, manifest, evalVars, collectVars, interpVars, callVars>>

\* judge_intent.main after validation: read the run file, pick the run
\* (`return 2` without one), judge it, write the verdict file
JudgeMain ==
    /\ pc.at = "judge"
    /\ LET p == prog.payload
           named == IF RunNamed(p.runs, prog.judge_run) # NoneRec
                    THEN RunNamed(p.runs, prog.judge_run)
                    ELSE IF RunNamed(p.runs, "single") # NoneRec
                         THEN RunNamed(p.runs, "single")
                         ELSE IF p.empty THEN NoneRec ELSE p.top
           v == judge(JudgeView(manifest), named)
       IN  IF p.kind = "unreadable"
           THEN exitCode' = Uncaught /\ UNCHANGED <<run, verdict, written, callVars>>
           ELSE IF named = NoneRec
           THEN exitCode' = Returned(2) /\ UNCHANGED <<run, verdict, written, callVars>>
           ELSE /\ run' = named
                /\ verdict' = v
                /\ written' = {"verdict"}
                /\ exitCode' = Returned(ExitOf(v))
    /\ pc' = [at |-> "exited"]
    /\ UNCHANGED <<prog, runs, issued, manifest, evalVars, collectVars, interpVars, callVars>>

\* compare_runs.main up to the baseline run: close both sessions, run
\* before_cmd, start the trace
CompareStart ==
    /\ pc.at = "start"
    /\ prog.name = "compare_runs"
    /\ \E f \in Faults :
          LET evs == << Event("close", prog.name, "baseline", 0, TRUE),
                        Event("close", prog.name, "modified", 0, TRUE) >>
                     \o (IF prog.before_cmd THEN <<ShellEvent("before")>> ELSE <<>>)
                     \o (IF prog.trace
                         THEN <<Event("trace", prog.name, "baseline", 0, TRUE)>> ELSE <<>>)
              done == IssueAll(evs, f, 1)
          IN  /\ issued' = done.issued
              /\ IF done.raised
                 THEN /\ exitCode' = Uncaught
                      /\ pc' = [at |-> "exited"]
                      /\ UNCHANGED runs
                 ELSE /\ exitCode' = exitCode
                      /\ pc' = [at |-> "script", run |-> "baseline", i |-> 1,
                                n |-> Len(evs) + 1, fault |-> f]
                      /\ runs' = <<[name |-> "baseline", results |-> NewResults]>>
    /\ UNCHANGED <<prog, written, manifest, run, verdict, evalVars, collectVars, interpVars, callVars>>

\* One iteration of execute_script inside compare_runs.main
CompareStep ==
    /\ pc.at = "script"
    /\ pc.i <= Len(prog.commands)
    /\ LET cmd == prog.commands[pc.i]
           cur == runs[Len(runs)].results
           h == script_command(cmd, FaultOutcome(pc.fault, pc.n), cur)
           entry == [index |-> pc.i, command |-> cmd, result |-> h.result,
                     error |-> h.flow = "raise",
                     fatal |-> script_fatal(h, prog.stop_on_fail)]
       IN  /\ issued' = Append(issued, Event("step", prog.name, pc.run, pc.i,
                                             CommandReachesAgent(cmd)))
           /\ runs' = [runs EXCEPT ![Len(runs)].results =
                          [h.results EXCEPT !.log = Append(@, entry)]]
           /\ pc' = [pc EXCEPT !.i = IF script_breaks(h, prog.stop_on_fail)
                                     THEN Len(prog.commands) + 1 ELSE @ + 1,
                               !.n = @ + 1]
    /\ UNCHANGED <<prog, written, exitCode, manifest, run, verdict,
                   evalVars, collectVars, interpVars, callVars>>

\* execute_script returned in compare_runs.main: stop the trace; after the
\* baseline run between_cmd and start the modified run
CompareRunEnd ==
    /\ pc.at = "script"
    /\ pc.i > Len(prog.commands)
    /\ LET evs == (IF prog.trace
                   THEN <<Event("trace", prog.name, pc.run, 0, TRUE)>> ELSE <<>>)
                  \o (IF pc.run = "baseline" /\ prog.between_cmd
                      THEN <<ShellEvent("between")>> ELSE <<>>)
                  \o (IF pc.run = "baseline" /\ prog.trace
                      THEN <<Event("trace", prog.name, "modified", 0, TRUE)>> ELSE <<>>)
           done == IssueAll(evs, pc.fault, pc.n)
       IN  /\ issued' = issued \o done.issued
           /\ IF done.raised
              THEN /\ exitCode' = Uncaught
                   /\ pc' = [at |-> "exited"]
                   /\ UNCHANGED runs
              ELSE /\ exitCode' = exitCode
                   /\ IF pc.run = "baseline"
                      THEN /\ pc' = [pc EXCEPT !.run = "modified", !.i = 1,
                                               !.n = @ + Len(evs)]
                           /\ runs' = Append(runs, [name |-> "modified",
                                                    results |-> NewResults])
                      ELSE /\ pc' = [at |-> "compare"]
                           /\ UNCHANGED runs
    /\ UNCHANGED <<prog, written, manifest, run, verdict, evalVars, collectVars, interpVars, callVars>>

NextMain ==
    \/ MainLoad \/ RunStep \/ RunEnd \/ MainFinish \/ JudgeMain
    \/ CompareStart \/ CompareStep \/ CompareRunEnd

SpecMain == InitMain /\ [][NextMain]_vars

\* ------------------------------------------------------------------ claims on main

\* The manifest file of the invocation fails validation
ManifestInvalid ==
    /\ prog.name \in {"intent_test", "judge_intent"}
    /\ ~load_and_validate(prog.raw).raised
    /\ load_and_validate(prog.raw).errors # <<>>

\* C12: execution never starts on an invalid manifest: whenever validation
\* yields an error in intent_test.main or judge_intent.main, no step is
\* executed, no agent command is issued, no verdict is computed, and the
\* process exits with code 2.
C12_NoExecutionOnInvalidManifest ==
    (prog # NoneRec /\ ManifestInvalid) =>
        /\ issued = <<>>
        /\ runs = <<>>
        /\ verdict = NoVerdict
        /\ written = {}
        /\ pc.at \in {"start", "exited"}
        /\ pc.at = "exited" => exitCode = Returned(2)

\* intent_test.main ended on a manifest that breaks two rules at once
C12_Witness ==
    /\ prog # NoneRec /\ prog.name = "intent_test"
    /\ pc.at = "exited"
    /\ ~load_and_validate(prog.raw).raised
    /\ Len(load_and_validate(prog.raw).errors) >= 2
    /\ exitCode = Returned(2)

\* The manifest file of the invocation loads and passes validation
ManifestValid ==
    /\ prog.name \in {"intent_test", "judge_intent"}
    /\ ~load_and_validate(prog.raw).raised
    /\ load_and_validate(prog.raw).errors = <<>>

\* C13: every invocation of intent_test.main on a valid manifest ends with
\* the run file and the verdict file written and with exit code 0 for PASS,
\* 1 for FAIL, 2 for ERROR, whatever failure occurs during step execution.
C13_AlwaysLeavesArtifacts ==
    (prog # NoneRec /\ prog.name = "intent_test" /\ ManifestValid /\ pc.at = "exited") =>
        /\ written = {"run", "verdict"}
        /\ verdict # NoVerdict
        /\ ~exitCode.uncaught
        /\ exitCode.code = ExitOf(verdict)

\* Positions of the issued history holding a step of the named run
StepsOf(runName) ==
    { k \in 1..Len(issued) : issued[k].kind = "step" /\ issued[k].run = runName }

\* Positions of the issued history holding the between command
Betweens == { k \in 1..Len(issued) : issued[k].kind = "shell" /\ issued[k].run = "between" }

\* The invocation is a paired one
Paired ==
    \/ prog.name = "compare_runs"
    \/ prog.name = "intent_test" /\ manifest # NoneRec /\ manifest.strategy.mode = "compare"

\* C14: paired runs are strictly sequential and session-isolated: every
\* baseline step precedes the between command, which precedes every modified
\* step; no baseline step follows a modified step; every step carries the
\* session of its own run and the two sessions differ; in single mode one
\* run under one session is executed.
C14_PairedRunsSequential ==
    (prog # NoneRec /\ prog.name \in {"intent_test", "compare_runs"}) =>
        /\ \A b \in StepsOf("baseline"), m \in StepsOf("modified") :
              b < m /\ issued[b].session # issued[m].session
        /\ \A b \in StepsOf("baseline"), s \in Betweens : b < s
        /\ \A m \in StepsOf("modified"), s \in Betweens : s < m
        /\ \A k \in 1..Len(issued) :
              issued[k].kind = "step" =>
                 /\ issued[k].session = SessionOf(prog.name, issued[k].run)
                 /\ \A j \in 1..Len(issued) :
                       issued[j].kind = "step" /\ issued[j].run = issued[k].run
                          => issued[j].session = issued[k].session
        /\ Paired => StepsOf("single") = {}
        /\ ~Paired =>
              /\ StepsOf("baseline") = {} /\ StepsOf("modified") = {} /\ Betweens = {}
              /\ Len(runs) <= 1
              /\ \A k \in StepsOf("single") : issued[k].session = "intent"
        /\ pc.at \in {"write", "compare"} =>
              Len(runs) = IF Paired THEN 2 ELSE 1

\* A paired run of intent_test that ran a baseline step, the between
\* command and a modified step and went on to write its files
C14_Witness ==
    /\ prog # NoneRec /\ prog.name = "intent_test"
    /\ pc.at = "write"
    /\ StepsOf("baseline") # {} /\ Betweens # {} /\ StepsOf("modified") # {}

\* ---------------------------------------------------------------------
\* scripts/compare_runs.py: the snapshot comparator
\*
\* Texts inside a snapshot (role, name, value, href) are represented by
\* natural numbers chosen so that the order of the numbers is the order of
\* the texts: 0 is the empty text, roles are 1 ("heading") and 2 ("link"),
\* names are 1, 2, ... ("n001", "n002", ...).  AbsentN marks a key the
\* descriptor does not have.  `level` stands for the six kept keys that are
\* not part of the sort key (level, checked, disabled, selected, expanded,
\* pressed).
\*
\* A snapshot file is [kind, refs]: kind says what the file holds and refs
\* is the refs map in key order, a sequence of [ref, info].  An info is
\* [dict, role, name, value, level, href]; dict = FALSE is a JSON value
\* that is not an object.
\* ---------------------------------------------------------------------
AbsentN == 0 - 1

\* str(e.get(k, ""))
StrOf(v) == IF v = AbsentN THEN 0 ELSE v

\* Truthiness of e.get(k): present and not the empty text
TruthyText(v) == v # AbsentN /\ v # 0

\* Python's order on tuples and on strings: lexicographic, a proper prefix
\* comes first
SeqLess(a, b) ==
    \E i \in 1..(Len(a) + 1) :
        /\ \A j \in 1..(i - 1) : j <= Len(b) /\ a[j] = b[j]
        /\ i <= Len(b)
        /\ (i = Len(a) + 1 \/ a[i] < b[i])

\* list.sort(key=...) / sorted(..., key=...): a stable sort, elements with
\* equal keys keep the order they had
SortTiesReversed(seq, keys) ==
    LET n == Len(seq)
        pos == [i \in 1..n |->
                  Cardinality({ j \in 1..n :
                      \/ SeqLess(keys[j], keys[i])
                      \/ (keys[j] = keys[i] /\ j >= i) })]
    IN  [p \in 1..n |-> seq[CHOOSE i \in 1..n : pos[i] = p]]
StableSort(seq, keys) ==
    LET n == Len(seq)
        pos == [i \in 1..n |->
                  Cardinality({ j \in 1..n :
                      \/ SeqLess(keys[j], keys[i])
                      \/ (keys[j] = keys[i] /\ j <= i) })]
    IN  [p \in 1..n |-> seq[CHOOSE i \in 1..n : pos[i] = p]]

RECURSIVE SelectIdx(_, _, _)
SelectIdx(seq, keep, i) ==
    IF i > Len(seq) THEN <<>>
    ELSE (IF keep[i] THEN <<seq[i]>> ELSE <<>>) \o SelectIdx(seq, keep, i + 1)

\* The element normalize_snapshot builds from one refs value: the ref key
\* is not copied
CanonicalElement(info) ==
    [role |-> info.role, name |-> info.name, value |-> info.value,
     level |-> info.level, href |-> info.href]

SortKey(e) ==
    <<StrOf(e.role), StrOf(e.name), StrOf(e.value), StrOf(e.href)>>

\* normalize_snapshot on a payload whose refs map is `refs`
normalize_snapshot(refs) ==
    LET keep == [i \in 1..Len(refs) |->
                   /\ refs[i].info.dict
                   /\ (TruthyText(refs[i].info.role) \/ TruthyText(refs[i].info.name))]
        kept == SelectIdx(refs, keep, 1)
        elements == [i \in 1..Len(kept) |-> CanonicalElement(kept[i].info)]
    IN  StableSort(elements, [i \in 1..Len(elements) |-> SortKey(elements[i])])

\* Counter(...) over a list of keys: key -> number of occurrences
CounterAsSet(keys) == [k \in Range(keys) |-> 1]
Counter(keys) ==
    [k \in Range(keys) |-> Cardinality({ i \in 1..Len(keys) : keys[i] = k })]

CounterGet(c, k) == IF k \in DOMAIN c THEN c[k] ELSE 0

\* Counter subtraction keeps the positive differences only
CounterMinus(c, d) ==
    [k \in { x \in DOMAIN c : c[x] > CounterGet(d, x) } |-> c[k] - CounterGet(d, k)]

RECURSIVE CounterTotalOf(_, _)
CounterTotalOf(c, ks) ==
    IF ks = {} THEN 0
    ELSE LET k == CHOOSE x \in ks : TRUE
         IN  c[k] + CounterTotalOf(c, ks \ {k})

\* sum(counter.values())
CounterTotal(c) == CounterTotalOf(c, DOMAIN c)

element_summary(elements) ==
    LET roles == [i \in 1..Len(elements) |-> StrOf(elements[i].role)]
        named == SelectIdx(roles, [i \in 1..Len(roles) |-> roles[i] # 0], 1)
    IN  [count |-> Len(elements), by_role |-> Counter(named)]

\* _load_json_file: the second component, "None" when the file parsed
load_json_file_error(file) ==
    IF file.kind = "unreadable" THEN "failed to parse JSON" ELSE "None"

\* extract_snapshot_payload: [payload_refs, error]
extract_snapshot_payload(file) ==
    CASE file.kind = "nondict" ->
            [refs |-> <<>>, error |-> "snapshot file was not a JSON object"]
      [] file.kind = "parsed_error" ->
            [refs |-> <<>>, error |-> "stdout was not valid JSON"]
      [] file.kind = "stdout_only" ->
            [refs |-> <<>>, error |-> "snapshot missing parsed payload"]
      [] file.kind = "parsed_invalid" ->
            [refs |-> <<>>, error |-> "snapshot parsed payload was missing or invalid"]
      [] file.kind \in {"record", "envelope", "bare", "failed"} ->
            [refs |-> file.refs, error |-> "None"]
      [] OTHER ->
            [refs |-> <<>>, error |-> "unrecognized snapshot format"]

\* difflib.unified_diff of the two dumps: no line when they are equal, one
\* hunk otherwise
diff_normalized(a, b) == IF a = b THEN <<>> ELSE <<[from |-> a, to |-> b]>>

\* key(el) inside compare_snapshots
PairKey(e) == <<StrOf(e.role), StrOf(e.name)>>

\* _expanded: the counter as (role, name, count) triples in sorted order
expanded(c) ==
    LET items == { <<k[1], k[2], c[k]>> : k \in DOMAIN c }
        n == Cardinality(items)
        at == [t \in items |-> 1 + Cardinality({ u \in items : SeqLess(u, t) })]
    IN  [p \in 1..n |->
           LET t == CHOOSE u \in items : at[u] = p
           IN  [role |-> t[1], name |-> t[2], count |-> t[3]]]

\* The [:50] slice of the added and removed lists
ChangesCap == 50

Slice(seq, n) == SubSeq(seq, 1, IF Len(seq) < n THEN Len(seq) ELSE n)

SnapshotErrorResult(ea, eb) ==
    [same |-> FALSE,
     baseline |-> [error |-> ea],
     modified |-> [error |-> eb],
     changes |-> [added |-> <<>>, removed |-> <<>>,
                  added_count |-> 0, removed_count |-> 0],
     diff_lines |-> <<>>,
     error |-> [baseline |-> ea, modified |-> eb]]

RemovedSwapped(base_counts, mod_counts) == CounterMinus(mod_counts, base_counts)
Removed(base_counts, mod_counts) == CounterMinus(base_counts, mod_counts)

AddedWhole(base_counts, mod_counts) == mod_counts
Added(base_counts, mod_counts) == CounterMinus(mod_counts, base_counts)

SameNormNonEmpty(base_norm, mod_norm) == base_norm = mod_norm /\ base_norm # <<>>
SameNorm(base_norm, mod_norm) == base_norm = mod_norm

compare_snapshots(baseline, modified) ==
    LET le_b == load_json_file_error(baseline)
        le_m == load_json_file_error(modified)
        pb == extract_snapshot_payload(baseline)
        pm == extract_snapshot_payload(modified)
        base_norm == normalize_snapshot(pb.refs)
        mod_norm == normalize_snapshot(pm.refs)
        same == SameNorm(base_norm, mod_norm)
        base_counts == Counter([i \in 1..Len(base_norm) |-> PairKey(base_norm[i])])
        mod_counts == Counter([i \in 1..Len(mod_norm) |-> PairKey(mod_norm[i])])
        added == Added(base_counts, mod_counts)
        removed == Removed(base_counts, mod_counts)
    IN  IF le_b # "None" \/ le_m # "None" THEN SnapshotErrorResult(le_b, le_m)
        ELSE IF pb.error # "None" \/ pm.error # "None"
             THEN SnapshotErrorResult(pb.error, pm.error)
        ELSE [same |-> same,
              baseline |-> [summary |-> element_summary(base_norm)],
              modified |-> [summary |-> element_summary(mod_norm)],
              changes |-> [added |-> Slice(expanded(added), ChangesCap),
                           removed |-> Slice(expanded(removed), ChangesCap),
                           added_count |-> CounterTotal(added),
                           removed_count |-> CounterTotal(removed)],
              diff_lines |-> IF same THEN <<>> ELSE diff_normalized(base_norm, mod_norm)]

\* ---------------------------------------------------------------------
\* scripts/compare_runs.py: the console/error log comparator
\*
\* A log file is [kind, key, items]: kind "list" is a record whose data is
\* the list `items`, kind "keyed" one whose data is a dict holding `items`
\* under `key`, kind "null" one whose data is null, kind "unrecognized" a
\* JSON object with none of the known keys.  An item is the number that
\* stands for its text.  An extracted entry is [shape, key, items].
\* ---------------------------------------------------------------------
ItemEntry(n) == [shape |-> "item", key |-> "", items |-> <<n>>]

KeyCode(k) ==
    CASE k = "entries" -> 1 [] k = "errors" -> 2 [] k = "logs" -> 3
      [] k = "messages" -> 4 [] OTHER -> 0

\* json.dumps(entry, sort_keys=True): the text, as a sequence of numbers
\* that keeps what the entry holds in the order it holds it
Dumps(entry) ==
    CASE entry.shape = "item" -> <<1>> \o entry.items
      [] entry.shape = "dict" -> <<2, KeyCode(entry.key)>> \o entry.items
      [] OTHER -> <<3>>

\* compare_runs.extract_log_entries: [entries, error]
cr_extract_log_entries(file) ==
    CASE file.kind = "nondict" ->
            [entries |-> <<>>, error |-> "log file was not a JSON object"]
      [] file.kind = "parsed_error" ->
            [entries |-> <<>>, error |-> "stdout was not valid JSON"]
      [] file.kind = "stdout_only" ->
            [entries |-> <<>>, error |-> "log missing parsed payload"]
      [] file.kind = "null" ->
            [entries |-> <<>>, error |-> "None"]
      [] file.kind = "list" ->
            [entries |-> [i \in 1..Len(file.items) |-> ItemEntry(file.items[i])],
             error |-> "None"]
      [] file.kind = "keyed" ->
            [entries |-> <<[shape |-> "dict", key |-> file.key, items |-> file.items]>>,
             error |-> "None"]
      [] OTHER ->
            [entries |-> <<[shape |-> "object", key |-> "", items |-> <<>>]>>,
             error |-> "None"]

normalize_entries(entries) ==
    LET normalized == [i \in 1..Len(entries) |-> Dumps(entries[i])]
    IN  StableSort(normalized, normalized)

\* The [:20] slice of the sample
SampleCap == 20

\* json.loads(path.read_text()) at the top of compare_logs
LogLoadRaises(file) == file.kind = "unreadable"

compare_logs(baseline, modified) ==
    LET b == cr_extract_log_entries(baseline)
        m == cr_extract_log_entries(modified)
    IN  IF LogLoadRaises(baseline) \/ LogLoadRaises(modified) THEN [raised |-> TRUE]
        ELSE IF b.error # "None" \/ m.error # "None"
             THEN [raised |-> FALSE,
                   result |-> [same |-> FALSE,
                               baseline |-> [error |-> b.error],
                               modified |-> [error |-> m.error],
                               error |-> [baseline |-> b.error, modified |-> m.error]]]
        ELSE [raised |-> FALSE,
              result |-> [same |-> normalize_entries(b.entries) = normalize_entries(m.entries),
                          baseline |-> [summary |-> [count |-> Len(b.entries),
                                                     sample |-> Slice(b.entries, SampleCap)]],
                          modified |-> [summary |-> [count |-> Len(m.entries),
                                                     sample |-> Slice(m.entries, SampleCap)]]]]

\* ---------------------------------------------------------------------
\* The comparators applied to pairs of files
\* ---------------------------------------------------------------------
MaxRefs == 3
MaxEntries == 3

\* Two links (role 2) that differ in `level` only, a heading (role 1), and
\* a descriptor with neither role nor name
SnapInfos ==
    { [dict |-> TRUE, role |-> 2, name |-> 1, value |-> AbsentN, level |-> 1, href |-> AbsentN],
      [dict |-> TRUE, role |-> 2, name |-> 1, value |-> AbsentN, level |-> 2, href |-> AbsentN],
      [dict |-> TRUE, role |-> 1, name |-> 2, value |-> AbsentN, level |-> AbsentN, href |-> AbsentN],
      [dict |-> TRUE, role |-> AbsentN, name |-> 0, value |-> AbsentN, level |-> 1, href |-> AbsentN] }

NotADict ==
    [dict |-> FALSE, role |-> AbsentN, name |-> AbsentN, value |-> AbsentN,
     level |-> AbsentN, href |-> AbsentN]

SeqsUpTo(S, n) == UNION { [1..k -> S] : k \in 0..n }

\* A refs map whose keys are e<first+1>, e<first+2>, ...
RefsOf(infos, first) == [i \in 1..Len(infos) |-> [ref |-> first + i, info |-> infos[i]]]

MalformedSnapshots ==
    [kind : {"unreadable", "nondict", "parsed_error", "stdout_only",
             "parsed_invalid", "unrecognized", "failed"},
     refs : {<<>>}]

\* ChangesCap + 1 links with distinct names
WideSnapshot ==
    [kind |-> "record",
     refs |-> RefsOf([i \in 1..(ChangesCap + 1) |->
                        [dict |-> TRUE, role |-> 2, name |-> i, value |-> AbsentN,
                         level |-> AbsentN, href |-> AbsentN]], 0)]

EmptySnapshot == [kind |-> "record", refs |-> <<>>]

\* The wide snapshot is compared with itself and with an empty one
WideSnapshots == {WideSnapshot, EmptySnapshot}

SnapshotFiles(first, longest) ==
    { [kind |-> "record", refs |-> RefsOf(infos, first)] : infos \in SeqsUpTo(SnapInfos, longest) }

OtherShapes ==
    { [kind |-> k, refs |-> RefsOf(infos, 0)] :
        k \in {"envelope", "bare"}, infos \in SeqsUpTo(SnapInfos, 1) }
      \cup { [kind |-> "record", refs |-> RefsOf(<<NotADict>> \o infos, 0)] :
               infos \in SeqsUpTo(SnapInfos, 1) }

\* The modified side also holds snapshots under keys no baseline uses
BaselineSnapshots == SnapshotFiles(0, MaxRefs) \cup OtherShapes \cup MalformedSnapshots
ModifiedSnapshots == BaselineSnapshots \cup SnapshotFiles(MaxRefs, MaxRefs - 1)

LogItems == 1..2
LogKeys == {"errors", "messages", "logs", "entries"}

LogFiles ==
    [kind : {"list"}, key : {""}, items : SeqsUpTo(LogItems, MaxEntries)]
      \cup [kind : {"keyed"}, key : LogKeys, items : SeqsUpTo(LogItems, MaxEntries)]
      \cup [kind : {"unreadable", "nondict", "parsed_error", "stdout_only",
                    "null", "unrecognized"},
            key : {""}, items : {<<>>}]

InitCompare ==
    /\ call \in [fn : {"compare_snapshots"}, a : BaselineSnapshots, b : ModifiedSnapshots]
                  \cup [fn : {"compare_snapshots"}, a : WideSnapshots, b : WideSnapshots]
                  \cup [fn : {"compare_logs"}, a : LogFiles, b : LogFiles]
    /\ ret = NoneRec /\ locals = NoneRec
    /\ JudgeIdle /\ run = NoneRec
    /\ EvalIdle
    /\ CollectIdle
    /\ InterpIdle
    /\ MainIdle

CompareSnapshots ==
    /\ call.fn = "compare_snapshots"
    /\ ret = NoneRec
    /\ ret' = [raised |-> FALSE, result |-> compare_snapshots(call.a, call.b)]
    /\ UNCHANGED <<call, locals, run, judgeVars, evalVars, collectVars, interpVars, mainVars>>

CompareLogs ==
    /\ call.fn = "compare_logs"
    /\ ret = NoneRec
    /\ ret' = compare_logs(call.a, call.b)
    /\ UNCHANGED <<call, locals, run, judgeVars, evalVars, collectVars, interpVars, mainVars>>

NextCompare == CompareSnapshots \/ CompareLogs

SpecCompare == InitCompare /\ [][NextCompare]_vars

\* ---------------------------------------------------------------------
\* Claims on the comparators
\* ---------------------------------------------------------------------
SnapshotCompared == call # NoneRec /\ call.fn = "compare_snapshots" /\ ret # NoneRec
LogsCompared == call # NoneRec /\ call.fn = "compare_logs" /\ ret # NoneRec

WellFormedSnapshot(file) ==
    load_json_file_error(file) = "None" /\ extract_snapshot_payload(file).error = "None"

InfosOf(file) == [i \in 1..Len(file.refs) |-> file.refs[i].info]
RefKeysOf(file) == { file.refs[i].ref : i \in 1..Len(file.refs) }

\* C15: for two well-formed snapshots whose refs maps hold the same
\* multiset of element descriptors under different ref keys and in a
\* different key order, normalize_snapshot returns equal lists and
\* compare_snapshots reports same = true.
C15_SnapshotOrderInsensitive ==
    (/\ SnapshotCompared
     /\ WellFormedSnapshot(call.a) /\ WellFormedSnapshot(call.b)
     /\ Counter(InfosOf(call.a)) = Counter(InfosOf(call.b))
     /\ RefKeysOf(call.a) \cap RefKeysOf(call.b) = {}
     /\ InfosOf(call.a) # InfosOf(call.b))
        => /\ normalize_snapshot(call.a.refs) = normalize_snapshot(call.b.refs)
           /\ ret.result.same

\* C16 as stated: for every snapshot A, compare_snapshots(A, A).same is
\* true.
C16_ReflexiveForEverySnapshot ==
    (SnapshotCompared /\ call.a = call.b) => ret.result.same

\* C16: for every well-formed snapshot A (the file parses and
\* extract_snapshot_payload finds a payload in it),
\* compare_snapshots(A, A).same is true.
C16_ReflexiveWhenWellFormed ==
    (SnapshotCompared /\ call.a = call.b /\ WellFormedSnapshot(call.a)) => ret.result.same

\* A well-formed snapshot with two kept elements compared with itself
C16_Witness ==
    /\ SnapshotCompared /\ call.a = call.b /\ WellFormedSnapshot(call.a)
    /\ ret.result.baseline.summary.count >= 2

\* C17: compare_snapshots(A, B).same equals compare_snapshots(B, A).same,
\* the added list and added_count of one are the removed list and
\* removed_count of the other, malformed inputs included.
C17_SnapshotSymmetry ==
    SnapshotCompared =>
        LET r == ret.result
            q == compare_snapshots(call.b, call.a)
        IN  /\ r.same = q.same
            /\ r.changes.added = q.changes.removed
            /\ r.changes.added_count = q.changes.removed_count
            /\ r.changes.removed = q.changes.added
            /\ r.changes.removed_count = q.changes.added_count

\* Two snapshots that each hold a pair the other lacks
C17_Witness ==
    /\ SnapshotCompared
    /\ ret.result.changes.added_count > 0
    /\ ret.result.changes.removed_count > 0
    /\ ret.result.changes.added # ret.result.changes.removed

\* Number of elements of a normalized list that carry the pair k
Occ(norm, k) == Cardinality({ i \in 1..Len(norm) : PairKey(norm[i]) = k })

PairsOf(norm) == { PairKey(norm[i]) : i \in 1..Len(norm) }

\* The positive part of (count in `more` - count in `less`), as triples
PositivePart(more, less) ==
    { <<k[1], k[2], Occ(more, k) - Occ(less, k)>> :
         k \in { x \in PairsOf(more) : Occ(more, x) > Occ(less, x) } }

RECURSIVE SumThird(_)
SumThird(ts) ==
    IF ts = {} THEN 0
    ELSE LET t == CHOOSE x \in ts : TRUE IN t[3] + SumThird(ts \ {t})

TriplesOf(list) == { <<list[i].role, list[i].name, list[i].count>> : i \in 1..Len(list) }

\* An element twice in the baseline and once in the modified run, the rest
\* alike
TwiceAgainstOnce(base, mod) ==
    \E k \in PairsOf(base) :
        /\ Occ(base, k) = 2 /\ Occ(mod, k) = 1
        /\ \A x \in (PairsOf(base) \cup PairsOf(mod)) \ {k} : Occ(base, x) = Occ(mod, x)

BothWellFormed ==
    SnapshotCompared /\ WellFormedSnapshot(call.a) /\ WellFormedSnapshot(call.b)

\* C18 as stated: added is the whole positive part of (modified count -
\* baseline count), removed the whole positive part of the opposite
\* difference, the counts are their sums.
C18_ListsAreWholePositiveParts ==
    BothWellFormed =>
        LET base == normalize_snapshot(call.a.refs)
            mod == normalize_snapshot(call.b.refs)
            ch == ret.result.changes
        IN  /\ TriplesOf(ch.added) = PositivePart(mod, base)
            /\ TriplesOf(ch.removed) = PositivePart(base, mod)
            /\ Len(ch.added) = Cardinality(PositivePart(mod, base))
            /\ Len(ch.removed) = Cardinality(PositivePart(base, mod))
            /\ ch.added_count = SumThird(PositivePart(mod, base))
            /\ ch.removed_count = SumThird(PositivePart(base, mod))

\* `list` is the first ChangesCap triples of `part` in (role, name, count)
\* order
FirstOfPart(list, part) ==
    /\ TriplesOf(list) \subseteq part
    /\ Len(list) = (IF Cardinality(part) < ChangesCap THEN Cardinality(part) ELSE ChangesCap)
    /\ \A i \in 1..Len(list), j \in 1..Len(list) :
          i < j => SeqLess(<<list[i].role, list[i].name, list[i].count>>,
                           <<list[j].role, list[j].name, list[j].count>>)
    /\ \A t \in part \ TriplesOf(list), u \in TriplesOf(list) : SeqLess(u, t)

\* C18: compare_snapshots counts the occurrences of each (role, name) pair
\* on both sides; added holds the first 50 entries, in (role, name, count)
\* order, of the positive part of (modified count - baseline count) and
\* removed those of the positive part of (baseline count - modified
\* count); added_count and removed_count are the sums of the whole
\* differences; an element twice in the baseline and once in the modified
\* run gives removed_count = 1, added_count = 0 and same = false.
C18_MultisetDiffCounts ==
    BothWellFormed =>
        LET base == normalize_snapshot(call.a.refs)
            mod == normalize_snapshot(call.b.refs)
            ch == ret.result.changes
        IN  /\ FirstOfPart(ch.added, PositivePart(mod, base))
            /\ FirstOfPart(ch.removed, PositivePart(base, mod))
            /\ ch.added_count = SumThird(PositivePart(mod, base))
            /\ ch.removed_count = SumThird(PositivePart(base, mod))
            /\ TwiceAgainstOnce(base, mod) =>
                  ch.removed_count = 1 /\ ch.added_count = 0 /\ ~ret.result.same

\* The same link twice in the baseline and once in the modified run
C18_Witness ==
    /\ BothWellFormed
    /\ TwiceAgainstOnce(normalize_snapshot(call.a.refs), normalize_snapshot(call.b.refs))
    /\ ret.result.changes.removed_count = 1

\* Files named by the claim: unreadable or not valid JSON, carrying
\* parsed_error, or of an unrecognized shape
SnapshotUnusable(file) ==
    file.kind \in {"unreadable", "parsed_error", "nondict", "stdout_only",
                   "parsed_invalid", "unrecognized"}
LogUnusable(file) ==
    file.kind \in {"unreadable", "parsed_error", "nondict", "stdout_only", "unrecognized"}

\* C19: when a file given to compare_snapshots or compare_logs is
\* unreadable, not valid JSON, carries parsed_error or has an unrecognized
\* shape, the comparison does not raise and returns same = false with an
\* error field naming the reason.
C19_ComparisonErrorsAreResults ==
    /\ (SnapshotCompared /\ (SnapshotUnusable(call.a) \/ SnapshotUnusable(call.b))) =>
          /\ ~ret.raised
          /\ ~ret.result.same
          /\ "error" \in DOMAIN ret.result
          /\ ret.result.error.baseline # "None" \/ ret.result.error.modified # "None"
    /\ (LogsCompared /\ (LogUnusable(call.a) \/ LogUnusable(call.b))) =>
          /\ ~ret.raised
          /\ ~ret.result.same
          /\ "error" \in DOMAIN ret.result
          /\ ret.result.error.baseline # "None" \/ ret.result.error.modified # "None"

\* C20: two log records of the same supported shape (data a list, or a
\* dict holding the list under errors, messages, logs or entries) with the
\* same multiset of entries in different orders compare as same = true,
\* and each side's summary count is its number of entries.
C20_LogOrderInsensitive ==
    (/\ LogsCompared
     /\ call.a.kind \in {"list", "keyed"}
     /\ call.b.kind = call.a.kind /\ call.b.key = call.a.key
     /\ Counter(call.a.items) = Counter(call.b.items)
     /\ call.a.items # call.b.items)
        => /\ ~ret.raised
           /\ ret.result.same
           /\ ret.result.baseline.summary.count = Len(call.a.items)
           /\ ret.result.modified.summary.count = Len(call.b.items)

\* ---------------------------------------------------------------------
\* scripts/compare_runs.py: the probe comparator
\*
\* A probe file is [readable, returncode, stdout, stderr]: what write_record
\* stored of one run_probe result, or a file that no longer loads.
\* ---------------------------------------------------------------------
\* load_json: the error, "None" when the file parsed
load_json_error(file) == IF file.readable THEN "None" ELSE "unreadable"

\* str.splitlines on a text given as a sequence of symbols: "LF" and "CR"
\* end a line, "CR" "LF" together end one line, and a text that ends with a
\* line end has no empty last line
RECURSIVE SplitFrom(_, _, _, _)
SplitFrom(t, i, cur, acc) ==
    IF i > Len(t) THEN (IF cur = <<>> THEN acc ELSE Append(acc, cur))
    ELSE IF t[i] = "CR" /\ i < Len(t) /\ t[i + 1] = "LF"
         THEN SplitFrom(t, i + 2, <<>>, Append(acc, cur))
    ELSE IF t[i] \in {"CR", "LF"} THEN SplitFrom(t, i + 1, <<>>, Append(acc, cur))
    ELSE SplitFrom(t, i + 1, Append(cur, t[i]), acc)

splitlines(t) == SplitFrom(t, 1, <<>>, <<>>)

\* diff_text: unified_diff over the lines of the two texts; no output for
\* equal line lists, one hunk otherwise
diff_text(a, b) ==
    IF splitlines(a) = splitlines(b) THEN <<>>
    ELSE <<[from |-> splitlines(a), to |-> splitlines(b)]>>

PathOrNone(paths, i) == IF i <= Len(paths) THEN "path" ELSE "None"

ProbeSameIgnoringStderr(b, m) ==
    b.returncode = m.returncode /\ OrEmpty(b.stdout) = OrEmpty(m.stdout)
ProbeSame(b, m) ==
    /\ b.returncode = m.returncode
    /\ OrEmpty(b.stdout) = OrEmpty(m.stdout)
    /\ OrEmpty(b.stderr) = OrEmpty(m.stderr)

\* One iteration of the loop of compare_probes: the entry appended for the
\* 1-based index i
probe_entry(baseline_paths, modified_paths, i) ==
    IF i > Len(baseline_paths) \/ i > Len(modified_paths)
    THEN [index |-> i,
          baseline |-> PathOrNone(baseline_paths, i),
          modified |-> PathOrNone(modified_paths, i),
          same |-> FALSE,
          error |-> [text |-> "missing probe result"]]
    ELSE LET b == baseline_paths[i]
             m == modified_paths[i]
         IN  IF load_json_error(b) # "None" \/ load_json_error(m) # "None"
             THEN [index |-> i,
                   baseline |-> "path",
                   modified |-> "path",
                   same |-> FALSE,
                   error |-> [baseline |-> load_json_error(b),
                              modified |-> load_json_error(m)]]
             ELSE [index |-> i,
                   baseline |-> [returncode |-> b.returncode],
                   modified |-> [returncode |-> m.returncode],
                   diffs |-> [stdout |-> diff_text(OrEmpty(b.stdout), OrEmpty(m.stdout)),
                              stderr |-> diff_text(OrEmpty(b.stderr), OrEmpty(m.stderr))],
                   same |-> ProbeSame(b, m)]

compare_probes(baseline_paths, modified_paths) ==
    LET total == IF Len(baseline_paths) > Len(modified_paths)
                 THEN Len(baseline_paths) ELSE Len(modified_paths)
        comparisons == [i \in 1..total |-> probe_entry(baseline_paths, modified_paths, i)]
        changed == Cardinality({ i \in 1..total : ~comparisons[i].same })
    IN  [same |-> changed = 0, changed |-> changed, entries |-> comparisons]

MaxProbeFiles == 2

ProbeFiles ==
    { [readable |-> FALSE, returncode |-> 0, stdout |-> <<>>, stderr |-> <<>>],
      [readable |-> TRUE, returncode |-> 0, stdout |-> <<>>, stderr |-> <<>>],
      [readable |-> TRUE, returncode |-> 1, stdout |-> <<>>, stderr |-> <<>>],
      [readable |-> TRUE, returncode |-> 0, stdout |-> <<"x">>, stderr |-> <<>>],
      [readable |-> TRUE, returncode |-> 0, stdout |-> <<>>, stderr |-> <<"e">>] }

InitProbes ==
    /\ call \in [fn : {"compare_probes"},
                 a : SeqsUpTo(ProbeFiles, MaxProbeFiles),
                 b : SeqsUpTo(ProbeFiles, MaxProbeFiles)]
    /\ ret = NoneRec /\ locals = NoneRec
    /\ JudgeIdle /\ run = NoneRec
    /\ EvalIdle
    /\ CollectIdle
    /\ InterpIdle
    /\ MainIdle

CompareProbes ==
    /\ call.fn = "compare_probes"
    /\ ret = NoneRec
    /\ ret' = compare_probes(call.a, call.b)
    /\ UNCHANGED <<call, locals, run, judgeVars, evalVars, collectVars, interpVars, mainVars>>

NextProbes == CompareProbes

SpecProbes == InitProbes /\ [][NextProbes]_vars

\* Both files of position i are there and load
PairedReadable(i) ==
    /\ i <= Len(call.a) /\ i <= Len(call.b)
    /\ call.a[i].readable /\ call.b[i].readable

\* C21: compare_probes pairs results by list position: the result has
\* max(len(baseline), len(modified)) entries indexed 1..n; an index present
\* on one side only gives same = false with the missing-probe error; a
\* paired entry is same exactly when returncode, stdout and stderr are all
\* identical; changed is the number of entries with same = false and the
\* overall same is true exactly when changed is 0.
C21_ProbesPairedByPosition ==
    (call # NoneRec /\ call.fn = "compare_probes" /\ ret # NoneRec) =>
        LET n == IF Len(call.a) > Len(call.b) THEN Len(call.a) ELSE Len(call.b)
            es == ret.entries
        IN  /\ Len(es) = n
            /\ \A i \in 1..n :
                  /\ es[i].index = i
                  /\ (i > Len(call.a) \/ i > Len(call.b)) =>
                        ~es[i].same /\ es[i].error = [text |-> "missing probe result"]
                  /\ PairedReadable(i) =>
                        (es[i].same <=>
                            /\ call.a[i].returncode = call.b[i].returncode
                            /\ call.a[i].stdout = call.b[i].stdout
                            /\ call.a[i].stderr = call.b[i].stderr)
            /\ ret.changed = Cardinality({ i \in 1..n : ~es[i].same })
            /\ ret.same <=> ret.changed = 0

\* Two baseline probes against one modified probe that equals the first
C21_Witness ==
    /\ call # NoneRec /\ call.fn = "compare_probes" /\ ret # NoneRec
    /\ Len(call.a) = 2 /\ Len(call.b) = 1
    /\ PairedReadable(1) /\ ret.entries[1].same
    /\ ~ret.entries[2].same /\ ~ret.same /\ ret.changed = 1

\* ---------------------------------------------------------------------
\* intent/manifest.py: load_and_validate on manifests of every shape
\* ---------------------------------------------------------------------
NoEnvironment(kind) == [kind |-> kind, base_url |-> FALSE, admin_user |-> FALSE]
NoStrategy(kind) == [kind |-> kind, mode |-> Absent, between_cmd |-> FALSE]
NoSteps(kind) == [kind |-> kind, items |-> <<>>]

\* Manifest files: every field present or missing, well typed or not
ManifestFiles ==
    [top : {"dict"},
     issue : {Absent, "null", "full", "partial", "list"},
     intent_statement : {Absent, "", "x"},
     environment : { [kind |-> "dict", base_url |-> b, admin_user |-> FALSE] : b \in BOOLEAN }
                   \cup { NoEnvironment(k) : k \in {Absent, "null", "list"} },
     strategy : { [kind |-> "dict", mode |-> md, between_cmd |-> FALSE] :
                     md \in {Absent, "single", "compare", "bogus"} }
                \cup { NoStrategy(k) : k \in {Absent, "null", "str"} },
     steps : { [kind |-> "list", items |-> <<[key |-> "open", arg |-> "/a"]>>] }
             \cup { NoSteps(k) : k \in {Absent, "list", "null", "str"} },
     assertions : { [kind |-> k, items |-> <<>>] : k \in {Absent, "list", "str"} },
     guards : {<<>>},
     adr : {Absent, "empty", "strs", "ints", "str", "falsy"}]

InitManifest ==
    /\ call \in [fn : {"load_and_validate"}, raw : ManifestFiles]
    /\ ret = NoneRec /\ locals = NoneRec
    /\ JudgeIdle /\ run = NoneRec
    /\ EvalIdle
    /\ CollectIdle
    /\ InterpIdle
    /\ MainIdle

LoadAndValidate ==
    /\ call.fn = "load_and_validate"
    /\ ret = NoneRec
    /\ ret' = load_and_validate(call.raw)
    /\ UNCHANGED <<call, locals, run, judgeVars, evalVars, collectVars, interpVars, mainVars>>

NextManifest == LoadAndValidate

SpecManifest == InitManifest /\ [][NextManifest]_vars

ManifestLoaded == call # NoneRec /\ call.fn = "load_and_validate" /\ ret # NoneRec

\* The rules of the manifest, stated on the file
BreaksIssue(raw) ==
    raw.issue = "list" \/ (raw.issue # "full" /\ raw.intent_statement \in {Absent, ""})
LacksBaseUrl(raw) == raw.environment.kind \in {Absent, "dict"} /\ ~raw.environment.base_url
BreaksEnvironment(raw) == raw.environment.kind \in {"null", "list"} \/ LacksBaseUrl(raw)
BreaksStrategy(raw) ==
    \/ raw.strategy.kind \in {"null", "str"}
    \/ raw.strategy.kind = "dict" /\ raw.strategy.mode \notin {Absent, "single", "compare"}
BreaksSteps(raw) == raw.steps.kind # "list" \/ raw.steps.items = <<>>
BreaksAssertions(raw) == raw.assertions.kind = "str"
BreaksAdr(raw) == raw.adr \in {"str", "ints"}

One(b) == IF b THEN 1 ELSE 0

RulesBroken(raw) ==
    One(BreaksIssue(raw)) + One(BreaksEnvironment(raw)) + One(BreaksStrategy(raw))
      + One(BreaksSteps(raw)) + One(BreaksAssertions(raw)) + One(BreaksAdr(raw))

\* C22: for every loaded manifest, wrong types of environment, strategy,
\* issue or steps included, load_and_validate returns without raising a
\* list holding one message per violated rule, and a manifest lacking
\* environment.base_url always gets the message naming it.
C22_ValidationExhaustiveAndTotal ==
    ManifestLoaded =>
        /\ ~ret.raised
        /\ Len(ret.errors) = RulesBroken(call.raw)
        /\ LacksBaseUrl(call.raw) => "environment.base_url is required" \in Range(ret.errors)

\* The conditions C23 lists on environment, steps, strategy, issue and
\* intent_statement
C23Listed(raw) ==
    /\ raw.environment.kind = "dict" /\ raw.environment.base_url
    /\ raw.steps.kind = "list" /\ raw.steps.items # <<>>
    /\ raw.strategy.kind \in {Absent, "dict"}
    /\ raw.strategy.mode \in {Absent, "single", "compare"}
    /\ (raw.issue = "full" \/ raw.intent_statement = "x")

HasAiData(cp) == cp.artifacts.ai_explorer.file = "ok"
HasMessages(cp) == cp.artifacts.drupal_messages.file = "ok"

\* The run with every stored tool payload replaced by t
WithToolPayload(r, t) ==
    [r EXCEPT !.checkpoints =
        [i \in 1..Len(r.checkpoints) |->
            IF HasAiData(r.checkpoints[i])
            THEN [r.checkpoints[i] EXCEPT !.artifacts.ai_explorer.data.tool_payload = t]
            ELSE r.checkpoints[i]]]

\* The run with every stored status and alert banner replaced
WithBanners(r, st, al) ==
    [r EXCEPT !.checkpoints =
        [i \in 1..Len(r.checkpoints) |->
            IF HasMessages(r.checkpoints[i])
            THEN [r.checkpoints[i] EXCEPT !.artifacts.drupal_messages.data =
                                              [status |-> st, alert |-> al]]
            ELSE r.checkpoints[i]]]

OtherTexts == { <<>>, <<"h", "g">>, <<"k">>, <<"o", "k">> }

FinalAnswerScoped ==
    /\ Evaluated
    /\ assertion.type \in {"text_absent", "text_present"}
    /\ assertion.scope = "final_answer"

\* The final answer stored with the checkpoint, empty when there is none
FinalAnswerOf(cp) ==
    IF HasAiData(cp) THEN OrEmpty(cp.artifacts.ai_explorer.data.final_answer) ELSE <<>>

SomePatternMatches(text) ==
    \E i \in 1..Len(assertion.patterns) :
        ReCompiles(assertion.patterns[i]) /\ Contains(text, assertion.patterns[i])

\* C24: a text_absent or text_present assertion scoped to final_answer
\* depends only on the checkpoint's final answer and the patterns: runs
\* that differ only in the tool payload, or only in the status and alert
\* banners, give the same status, and text_absent passes exactly when no
\* pattern matches the final answer.
C24_FinalAnswerScopeIsolation ==
    FinalAnswerScoped =>
        /\ \A t \in OtherTexts :
              evaluate_assertion(assertion, WithToolPayload(run, t)).status = result.status
        /\ \A st \in OtherTexts \cup {NoneT}, al \in OtherTexts \cup {NoneT} :
              evaluate_assertion(assertion, WithBanners(run, st, al)).status = result.status
        /\ resolved # NoneRec =>
              /\ assertion.type = "text_absent" =>
                    (result.passed <=> ~SomePatternMatches(FinalAnswerOf(resolved)))
              /\ assertion.type = "text_present" =>
                    (result.passed <=> SomePatternMatches(FinalAnswerOf(resolved)))

\* text_absent on "hg" scoped to the final answer passes although a banner
\* of the same checkpoint holds "hg"
C24_Witness ==
    /\ FinalAnswerScoped
    /\ assertion.type = "text_absent"
    /\ assertion.patterns = <<<<"h", "g">>>>
    /\ resolved # NoneRec
    /\ HasAiData(resolved) /\ HasMessages(resolved)
    /\ resolved.artifacts.drupal_messages.data.status = <<"h", "g">>
    /\ result.status = "PASS"

\* ---------------------------------------------------------------------
\* Claims on normalize_snapshot applied twice (SpecCompare)
\* ---------------------------------------------------------------------
\* A normalized list put back as the refs map of an envelope: fresh keys
\* e1, e2, ... in list order
Rewrapped(elements) ==
    RefsOf([i \in 1..Len(elements) |->
              [dict |-> TRUE, role |-> elements[i].role, name |-> elements[i].name,
               value |-> elements[i].value, level |-> elements[i].level,
               href |-> elements[i].href]], 0)

IdempotentOn(file) ==
    LET once == normalize_snapshot(extract_snapshot_payload(file).refs)
    IN  normalize_snapshot(Rewrapped(once)) = once

\* C25: for every snapshot envelope x, normalizing the envelope that holds
\* normalize_snapshot(x) as its refs map (fresh keys, list order) returns a
\* list equal to normalize_snapshot(x).  Every snapshot file of the pools
\* occurs as the modified file of a comparison.
C25_NormalizeIdempotent ==
    SnapshotCompared => IdempotentOn(call.b)

\* A snapshot of three descriptors, two of them alike but for `level` and
\* one that normalization drops
C25_Witness ==
    /\ SnapshotCompared
    /\ WellFormedSnapshot(call.b)
    /\ Len(call.b.refs) = 3
    /\ Len(normalize_snapshot(call.b.refs)) = 2
    /\ \E i \in 1..3, j \in 1..3 :
          /\ i < j
          /\ call.b.refs[i].info.level = 2 /\ call.b.refs[j].info.level = 1
          /\ call.b.refs[i].info.role = 2 /\ call.b.refs[j].info.role = 2

\* ---------------------------------------------------------------------
\* scripts/intent_test.py: wait_for_pre_blocks
\*
\* Time is in milliseconds.  One poll of the agent answers with a numeric
\* count, with a payload that is no number, with a failure record, or the
\* agent cannot be run (run_agent_browser raises); the poll takes some time.
\* ---------------------------------------------------------------------
MaxCount == 2

\* time.sleep(0.5)
SleepMs == 500

\* timeout_s = max(1, int(timeout_ms / 1000)), in milliseconds
WaitTimeoutMs(timeout_ms) ==
    1000 * (IF timeout_ms \div 1000 < 1 THEN 1 ELSE timeout_ms \div 1000)

PollResponses ==
    [kind : {"numeric"}, count : 0..MaxCount]
      \cup [kind : {"nonnumeric", "failed", "raise"}, count : {AbsentN}]

PollDurations == {0, 500}

InitWait ==
    /\ call \in [fn : {"wait_for_pre_blocks"}, timeout_ms : {500, 2000},
                 stable_ms : {0, 500, 1000}, min_count : {1, 2}]
    /\ locals = [now |-> 0, start |-> 0, last_count |-> AbsentN, last_change |-> 0,
                 last_record |-> [kind |-> "none", count |-> AbsentN], seen |-> <<>>]
    /\ ret = NoneRec
    /\ JudgeIdle /\ run = NoneRec
    /\ EvalIdle
    /\ CollectIdle
    /\ InterpIdle
    /\ MainIdle

\* The loop condition: time.time() - start < timeout_s
WaitGoesOn == locals.now - locals.start < WaitTimeoutMs(call.timeout_ms)

StableIgnoringWindow(count, since, now_ts) ==
    count # AbsentN /\ count >= call.min_count
Stable(count, since, now_ts) ==
    count # AbsentN /\ count >= call.min_count /\ now_ts - since >= call.stable_ms

\* One iteration of the loop
WaitPoll ==
    /\ call # NoneRec /\ call.fn = "wait_for_pre_blocks"
    /\ ret = NoneRec
    /\ WaitGoesOn
    /\ \E rec \in PollResponses, d \in PollDurations :
          LET now_ts == locals.now + d
              count == rec.count
              changed == count # AbsentN /\ count # locals.last_count
              last_count == IF changed THEN count ELSE locals.last_count
              last_change == IF changed THEN now_ts ELSE locals.last_change
              seen == Append(locals.seen, [at |-> now_ts, count |-> count])
          IN  IF rec.kind = "raise"
              THEN /\ ret' = [raised |-> TRUE]
                   /\ locals' = [locals EXCEPT !.now = now_ts]
              ELSE IF Stable(count, last_change, now_ts)
              THEN /\ ret' = [raised |-> FALSE, stabilized |-> TRUE,
                              count |-> count, record |-> rec]
                   /\ locals' = [now |-> now_ts, start |-> locals.start,
                                 last_count |-> last_count, last_change |-> last_change,
                                 last_record |-> rec, seen |-> seen]
              ELSE /\ ret' = ret
                   /\ locals' = [now |-> now_ts + SleepMs, start |-> locals.start,
                                 last_count |-> last_count, last_change |-> last_change,
                                 last_record |-> rec, seen |-> seen]
    /\ UNCHANGED <<call, run, judgeVars, evalVars, collectVars, interpVars, mainVars>>

\* The loop condition fails: the return after the loop
WaitTimesOut ==
    /\ call # NoneRec /\ call.fn = "wait_for_pre_blocks"
    /\ ret = NoneRec
    /\ ~WaitGoesOn
    /\ ret' = [raised |-> FALSE, stabilized |-> FALSE,
               count |-> locals.last_count, record |-> locals.last_record]
    /\ UNCHANGED <<call, locals, run, judgeVars, evalVars, collectVars, interpVars, mainVars>>

NextWait == WaitPoll \/ WaitTimesOut

SpecWait == InitWait /\ [][NextWait]_vars

WaitReturned == call # NoneRec /\ call.fn = "wait_for_pre_blocks" /\ ret # NoneRec

\* C26: wait_for_pre_blocks returns stabilized = true only when the count
\* observed last is at least min_count and the observed count has not
\* changed for at least stable_ms, every observed change restarting the
\* window.
C26_StabilizedOnlyWhenStable ==
    (WaitReturned /\ ~ret.raised /\ ret.stabilized) =>
        LET s == locals.seen
            n == Len(s)
        IN  /\ n >= 1
            /\ s[n].count # AbsentN
            /\ ret.count = s[n].count
            /\ ret.count >= call.min_count
            /\ \E k \in 1..n :
                  /\ s[k].count = ret.count
                  /\ s[n].at - s[k].at >= call.stable_ms
                  /\ \A j \in k..n : s[j].count \in {ret.count, AbsentN}

\* Stabilized after the count changed once and then stayed for the window
C26_Witness ==
    /\ WaitReturned /\ ~ret.raised /\ ret.stabilized
    /\ call.stable_ms = 1000
    /\ Len(locals.seen) >= 3
    /\ locals.seen[1].count \notin {AbsentN, ret.count}

\* The numeric count observed last, None when none was observed
RECURSIVE LastNumeric(_)
LastNumeric(s) ==
    IF s = <<>> THEN AbsentN
    ELSE IF s[Len(s)].count # AbsentN THEN s[Len(s)].count
    ELSE LastNumeric(SubSeq(s, 1, Len(s) - 1))

\* C27: for every sequence of agent responses wait_for_pre_blocks ends
\* without raising; the loop never starts a poll once the timeout has
\* elapsed, and a return without stabilization comes after the timeout
\* with the last observed count and record.
C27_WaitTerminates ==
    /\ (call # NoneRec /\ call.fn = "wait_for_pre_blocks") =>
          \A k \in 1..Len(locals.seen) :
              locals.seen[k].at < WaitTimeoutMs(call.timeout_ms) + 500
    /\ WaitReturned =>
          /\ ~ret.raised
          /\ ~ret.stabilized =>
                /\ locals.now - locals.start >= WaitTimeoutMs(call.timeout_ms)
                /\ ret.count = LastNumeric(locals.seen)
                /\ ret.record = locals.last_record

\* ---------------------------------------------------------------------
\* The wait step of the two interpreters, on its own: one step with its
\* argument, run against a session of the agent
\* ---------------------------------------------------------------------
ScriptWaitArgs == {"", "2", "0.5", "-1", "nan", "--load networkidle", "--text t", "'unbalanced"}

ManifestWaitArgs ==
    {"number", "negative", "true", "str 2", "null", "--load networkidle", "--text t",
     "'unbalanced"}

Sessions == {"baseline", "modified", "intent"}

InitWaitStep ==
    /\ call \in [fn : {"wait"}, form : {"script"}, arg : ScriptWaitArgs, session : Sessions]
                  \cup [fn : {"wait"}, form : {"manifest"}, arg : ManifestWaitArgs,
                        session : Sessions]
    /\ ret = NoneRec /\ locals = NoneRec
    /\ JudgeIdle /\ run = NoneRec
    /\ EvalIdle
    /\ CollectIdle
    /\ InterpIdle
    /\ MainIdle

\* The wait branch of one interpreter on one step; ret holds how the branch
\* ended, its result, the local delays and the agent commands of the session
WaitStep ==
    /\ call # NoneRec /\ call.fn = "wait"
    /\ ret = NoneRec
    /\ \E agent \in AgentOutcomes :
          LET out == [agent |-> agent, cpenv |-> EnvAllOk]
              h == IF call.form = "script"
                   THEN script_command([type |-> "wait", args |-> call.arg], out, NewResults)
                   ELSE steps_step([key |-> "wait", arg |-> call.arg], out, NewResults)
          IN  ret' = [flow |-> h.flow, result |-> h.result, slept |-> h.slept,
                      agent |-> [k \in 1..Len(h.agent) |->
                                    [session |-> call.session, argv |-> h.agent[k]]]]
    /\ UNCHANGED <<call, locals, run, judgeVars, evalVars, collectVars, interpVars, mainVars>>

NextWaitStep == WaitStep

SpecWaitStep == InitWaitStep /\ [][NextWaitStep]_vars

WaitStepDone == call # NoneRec /\ call.fn = "wait" /\ ret # NoneRec

\* Whether the step's argument is a number: the script's text parses as a
\* float, the manifest's value is a YAML number
WaitArgIsNumber ==
    IF call.form = "script" THEN ParsesAsFloat(call.arg)
    ELSE call.arg \in {"number", "negative"}

\* The argument as text
WaitArgText == IF call.form = "script" THEN call.arg ELSE StrOfArg(call.arg)

\* C28: a Wait step whose argument parses as a number performs a local
\* delay of that many seconds and issues no agent command; with any other
\* argument it issues exactly one agent wait command that carries the
\* argument (both forms).
C28_WaitLocalOrForwarded ==
    WaitStepDone =>
        IF WaitArgIsNumber
        THEN ret.slept = <<FloatOf(call.arg)>> /\ ret.agent = <<>>
        ELSE /\ Len(ret.agent) = 1
             /\ ret.agent[1].argv = <<"wait">> \o Tokens(WaitArgText)

\* ---------------------------------------------------------------------
\* Inline assertions of execute_script
\* ---------------------------------------------------------------------
InlineAssertTypes ==
    {"assert-present", "assert-absent", "assert-no-js-errors", "assert-no-drupal-alerts",
     "assert-url", "assert-count"}

\* Positions of the script holding an inline assertion that was executed
ExecutedAsserts ==
    { k \in 1..Len(executed) : script.steps[executed[k]].type \in InlineAssertTypes }

\* C29: every inline assertion step execute_script has executed appended
\* exactly one result to the run's assertions list, each result references
\* a persisted evidence file, and the Judge evaluates each result with
\* passed = false as a FAIL of severity fail.
C29_InlineAssertionsRecorded ==
    script.interp = "execute_script" =>
        /\ Len(results.assertions) = Cardinality(ExecutedAsserts)
        /\ \A k \in 1..Len(results.assertions) :
              LET ia == results.assertions[k]
              IN  /\ ia.evidence # Absent
                  /\ ~ia.passed =>
                        /\ InlineEvaluated(ia).status = "FAIL"
                        /\ InlineEvaluated(ia).severity = "fail"

\* ---------------------------------------------------------------------
\* Artifact files of a run
\* ---------------------------------------------------------------------

\* The files collect_checkpoint has persisted for a checkpoint: out_dir /
\* f"{name}.{kind}.json" for every kind in artifacts, and
\* f"{name}.probe.{idx}.json" for every probe path
ArtifactFiles(cp) ==
    { [name |-> cp.name, kind |-> kind, idx |-> 0] : kind \in cp.artifacts \ {"probes"} }
      \cup { [name |-> cp.name, kind |-> "probe", idx |-> cp.probe_paths[k]] :
                k \in 1..Len(cp.probe_paths) }

\* C30: once a checkpoint step has persisted an artifact file, no later
\* checkpoint step of the run writes that file again (also not one with the
\* same name), and within one checkpoint every capture, and with it the
\* kind's entry in artifacts and summary, happens at most once.
C30_ArtifactsWriteOnce ==
    /\ \A i, j \in 1..Len(results.checkpoints) :
          i < j => ArtifactFiles(results.checkpoints[i])
                      \cap ArtifactFiles(results.checkpoints[j]) = {}
    /\ \A i \in 1..Len(results.checkpoints) :
          LET calls == results.checkpoints[i].calls
          IN  \A a, b \in 1..Len(calls) : calls[a] = calls[b] => a = b

\* ---------------------------------------------------------------------
\* Capture order and mode contents of collect_checkpoint
\* ---------------------------------------------------------------------

\* The agent and probe calls one collect_checkpoint has made, in order; when
\* the URL lookup raises, it is the only call
AttemptsOf(out) ==
    IF out.raised THEN <<[kind |-> "url", idx |-> 0]>> ELSE out.checkpoint.calls

\* The kinds the artifacts map of the outcome holds
ArtifactKindsOf(out) == IF out.raised THEN {} ELSE out.checkpoint.artifacts

Attempted(out, kind, idx) ==
    \E k \in 1..Len(AttemptsOf(out)) : AttemptsOf(out)[k] = [kind |-> kind, idx |-> idx]

\* C31: the URL lookup is the first call of collect_checkpoint; in mode
\* snapshot only snapshot, console and errors are captured and the artifacts
\* map holds no other kind; in mode full drupal_messages, ai_explorer and
\* every configured probe are attempted as well, and the screenshot when
\* include_screenshot is set.
C31_CaptureOrderAndModeContents ==
    cpOut # NoneRec =>
        /\ AttemptsOf(cpOut)[1].kind = "url"
        /\ \A k \in 2..Len(AttemptsOf(cpOut)) : AttemptsOf(cpOut)[k].kind # "url"
        /\ cpArgs.mode = "snapshot" =>
              /\ { AttemptsOf(cpOut)[k].kind : k \in 2..Len(AttemptsOf(cpOut)) }
                    = {"snapshot", "console", "errors"}
              /\ ArtifactKindsOf(cpOut) \subseteq {"snapshot", "console", "errors"}
        /\ cpArgs.mode = "full" =>
              /\ Attempted(cpOut, "snapshot", 0)
              /\ Attempted(cpOut, "console", 0) /\ Attempted(cpOut, "errors", 0)
              /\ Attempted(cpOut, "drupal_messages", 0)
              /\ Attempted(cpOut, "ai_explorer", 0)
              /\ \A i \in 1..cpArgs.probe_cmds : Attempted(cpOut, "probe", i)
              /\ cpArgs.include_screenshot => Attempted(cpOut, "screenshot", 0)

\* ---------------------------------------------------------------------
\* scripts/compare_runs.py: compare_drupal_messages
\*
\* A drupal_messages file is unreadable, or holds JSON: null, something
\* that is no dict with a dict under data, or a payload whose data holds
\* status and alert (None or a text).
\* ---------------------------------------------------------------------
MaxText == 3

\* compare_runs.extract_drupal_messages
cr_extract_drupal_messages(payload) ==
    IF payload.kind = "dict"
    THEN [status |-> payload.status, alert |-> payload.alert]
    ELSE [status |-> NoneT, alert |-> NoneT]

compare_drupal_messages(baseline, modified) ==
    LET base_err == load_json_error(baseline)
        mod_err == load_json_error(modified)
        base_msg == cr_extract_drupal_messages(baseline)
        mod_msg == cr_extract_drupal_messages(modified)
    IN  IF base_err # "None" \/ mod_err # "None"
           \/ baseline.kind = "null" \/ modified.kind = "null"
        THEN [same |-> FALSE, error |-> [baseline |-> base_err, modified |-> mod_err]]
        ELSE [same |-> base_msg = mod_msg,
              data |-> [baseline |-> base_msg, modified |-> mod_msg],
              diffs |-> [status |-> IF base_msg.status = mod_msg.status THEN <<>>
                                    ELSE diff_text(OrEmpty(base_msg.status),
                                                   OrEmpty(mod_msg.status)),
                         alert |-> IF base_msg.alert = mod_msg.alert THEN <<>>
                                   ELSE diff_text(OrEmpty(base_msg.alert),
                                                  OrEmpty(mod_msg.alert))]]

MessageTexts == {NoneT} \cup SeqsUpTo({"a", "LF", "CR"}, MaxText)

MessageFiles ==
    [readable : {TRUE}, kind : {"dict"}, status : MessageTexts, alert : {NoneT, <<"a">>}]
      \cup [readable : {TRUE}, kind : {"null", "nondict"}, status : {NoneT}, alert : {NoneT}]
      \cup [readable : {FALSE}, kind : {"unreadable"}, status : {NoneT}, alert : {NoneT}]

InitMessages ==
    /\ call \in [fn : {"compare_drupal_messages"}, a : MessageFiles, b : MessageFiles]
    /\ ret = NoneRec /\ locals = NoneRec
    /\ JudgeIdle /\ run = NoneRec
    /\ EvalIdle
    /\ CollectIdle
    /\ InterpIdle
    /\ MainIdle

CompareDrupalMessages ==
    /\ call # NoneRec /\ call.fn = "compare_drupal_messages"
    /\ ret = NoneRec
    /\ ret' = compare_drupal_messages(call.a, call.b)
    /\ UNCHANGED <<call, locals, run, judgeVars, evalVars, collectVars, interpVars, mainVars>>

NextMessages == CompareDrupalMessages

SpecMessages == InitMessages /\ [][NextMessages]_vars

\* The comparison returned and both files held JSON other than null
MessagesCompared ==
    /\ call # NoneRec /\ call.fn = "compare_drupal_messages"
    /\ ret # NoneRec
    /\ "error" \notin DOMAIN ret

\* The field of the messages a file holds
FieldOf(file, key) == cr_extract_drupal_messages(file)[key]

\* C32: compare_drupal_messages reports same = true exactly when the status
\* fields are identical and the alert fields are identical; the diff of a
\* field is empty when the field is identical and non-empty for every field
\* that differs.
C32_SameIffFieldsIdentical ==
    MessagesCompared =>
        /\ ret.same <=> (\A key \in {"status", "alert"} :
                            FieldOf(call.a, key) = FieldOf(call.b, key))
        /\ \A key \in {"status", "alert"} :
              (FieldOf(call.a, key) = FieldOf(call.b, key)) <=> (ret.diffs[key] = <<>>)

\* ---------------------------------------------------------------------
\* scripts/collectors.py: analyze_ai_output
\*
\* Texts are sequences of characters, characters are numbers in the order
\* of their code points: 1 is "A", 2 is "a", 3 is "b".  A raw-value pattern
\* is a literal that either has no group or is written as two groups (the
\* first character, the rest), or it does not compile.
\* ---------------------------------------------------------------------
MaxAiText == 2
MaxAiPatterns == 2

\* str.lower
LowerChar(c) == IF c = 1 THEN 2 ELSE c
Lower(t) == [i \in 1..Len(t) |-> LowerChar(t[i])]

\* _compile_patterns: patterns that do not compile are dropped
compile_patterns(patterns) == SelectSeq(patterns, LAMBDA p : p.valid)

\* pattern.search(text)
Searches(p, text) == Contains(text, p.lit)

\* pattern.findall(text): one item per non-overlapping match from the left;
\* the matched text for a pattern without group, the tuple of its groups
\* for a pattern with two groups
RECURSIVE FindallFrom(_, _, _)
FindallFrom(p, text, i) ==
    IF i + Len(p.lit) - 1 > Len(text) THEN <<>>
    ELSE IF SubSeq(text, i, i + Len(p.lit) - 1) = p.lit
         THEN <<[tuple |-> p.groups = 2, v |-> p.lit]>>
                 \o FindallFrom(p, text, i + (IF Len(p.lit) = 0 THEN 1 ELSE Len(p.lit)))
    ELSE FindallFrom(p, text, i + 1)

findall(p, text) == FindallFrom(p, text, 1)

\* The matches of all patterns, in pattern order (list.extend)
RECURSIVE AllMatches(_, _, _)
AllMatches(patterns, text, i) ==
    IF i > Len(patterns) THEN <<>>
    ELSE findall(patterns[i], text) \o AllMatches(patterns, text, i + 1)

\* sorted(set(items)): raises TypeError when a tuple has to be compared with
\* a string
SortedSetRaises(items) ==
    \E i, j \in 1..Len(items) : items[i].tuple /\ ~items[j].tuple

SortedSet(items) ==
    LET firsts == SelectIdx(items,
                            [i \in 1..Len(items) |->
                                \A j \in 1..(i - 1) : items[j] # items[i]], 1)
    IN  StableSort(firsts, [i \in 1..Len(firsts) |-> firsts[i].v])

analyze_ai_output(final_answer, tool_payload, raw_value_patterns, label_terms) ==
    LET raw_patterns == compile_patterns(raw_value_patterns)
        in_final == AllMatches(raw_patterns, final_answer, 1)
        in_tool == AllMatches(raw_patterns, tool_payload, 1)
    IN  IF SortedSetRaises(in_final) \/ SortedSetRaises(in_tool)
        THEN [raised |-> TRUE]
        ELSE [raised |-> FALSE,
              final_answer_len |-> Len(final_answer),
              tool_payload_len |-> Len(tool_payload),
              raw_in_final_answer |-> SortedSet(in_final) # <<>>,
              raw_in_tool_payload |-> SortedSet(in_tool) # <<>>,
              raw_matches_final_answer |-> SortedSet(in_final),
              raw_matches_tool_payload |-> SortedSet(in_tool),
              label_terms_present_in_final_answer |->
                  SelectSeq(label_terms,
                            LAMBDA term : term # <<>>
                                            /\ Contains(Lower(final_answer), Lower(term)))]

AiTexts == SeqsUpTo(1..3, MaxAiText)

RawPatterns ==
    { [lit |-> <<2>>, groups |-> 0, valid |-> TRUE],
      [lit |-> <<2, 3>>, groups |-> 0, valid |-> TRUE],
      [lit |-> <<2, 3>>, groups |-> 2, valid |-> TRUE],
      [lit |-> <<2>>, groups |-> 0, valid |-> FALSE] }

LabelTerms == {<<>>, <<1>>, <<2, 3>>}

InitAnalyze ==
    /\ call \in [fn : {"analyze_ai_output"}, final_answer : AiTexts,
                 tool_payload : {<<>>, <<1>>, <<2, 3>>},
                 raw_value_patterns : SeqsUpTo(RawPatterns, MaxAiPatterns),
                 label_terms : SeqsUpTo(LabelTerms, 2)]
    /\ ret = NoneRec /\ locals = NoneRec
    /\ JudgeIdle /\ run = NoneRec
    /\ EvalIdle
    /\ CollectIdle
    /\ InterpIdle
    /\ MainIdle

AnalyzeAiOutput ==
    /\ call # NoneRec /\ call.fn = "analyze_ai_output"
    /\ ret = NoneRec
    /\ ret' = analyze_ai_output(call.final_answer, call.tool_payload,
                                call.raw_value_patterns, call.label_terms)
    /\ UNCHANGED <<call, locals, run, judgeVars, evalVars, collectVars, interpVars, mainVars>>

NextAnalyze == AnalyzeAiOutput

SpecAnalyze == InitAnalyze /\ [][NextAnalyze]_vars

Analyzed == call # NoneRec /\ call.fn = "analyze_ai_output" /\ ret # NoneRec

\* Some raw-value pattern is a regular expression and matches in the text
SomeRawPatternMatches(text) ==
    \E i \in 1..Len(call.raw_value_patterns) :
        call.raw_value_patterns[i].valid /\ Contains(text, call.raw_value_patterns[i].lit)

DuplicateFree(seq) == \A i, j \in 1..Len(seq) : seq[i] = seq[j] => i = j

\* C34: analyze_ai_output returns a summary in which raw_in_final_answer is
\* true exactly when some raw-value pattern matches in the final answer and
\* raw_in_tool_payload exactly when some pattern matches in the tool
\* payload, each whatever the other text is; the match lists hold no
\* duplicate; a label term is listed exactly when it is non-empty and,
\* case-insensitively, a substring of the final answer.
C34_LeakAnalysis ==
    Analyzed =>
        /\ ~ret.raised
        /\ ret.raw_in_final_answer <=> SomeRawPatternMatches(call.final_answer)
        /\ ret.raw_in_tool_payload <=> SomeRawPatternMatches(call.tool_payload)
        /\ DuplicateFree(ret.raw_matches_final_answer)
        /\ DuplicateFree(ret.raw_matches_tool_payload)
        /\ \A term \in LabelTerms :
              (\E k \in 1..Len(ret.label_terms_present_in_final_answer) :
                   ret.label_terms_present_in_final_answer[k] = term)
                <=> /\ \E k \in 1..Len(call.label_terms) : call.label_terms[k] = term
                    /\ term # <<>>
                    /\ Contains(Lower(call.final_answer), Lower(term))

\* ---------------------------------------------------------------------
\* scripts/collectors.py: collect_ai_explorer_messages
\*
\* The record the agent returned for the eval command: its returncode and
\* what its output parsed to: a dict whose data holds pre_texts ("list"),
\* whose data.result holds them ("nested"), whose pre_texts is no list
\* ("notlist"), a dict without data ("nodata"), no JSON ("invalid"), or no
\* output at all ("none").
\* ---------------------------------------------------------------------
MaxBlocks == 3

\* TOOL_PAYLOAD_PATTERNS
DefaultToolPatterns == <<[lit |-> <<1>>, groups |-> 0, valid |-> TRUE]>>

\* data.get("pre_texts"), [] when it is no list
pre_texts_of(rec) == IF rec.parsed \in {"list", "nested"} THEN rec.blocks ELSE <<>>

\* Positions of the blocks a tool-payload pattern is found in
PayloadPositions(blocks, patterns) ==
    { i \in 1..Len(blocks) : \E k \in 1..Len(patterns) : Searches(patterns[k], blocks[i]) }

\* The loop over pre_texts: the first block a pattern is found in, "" if none
first_payload_block(blocks, patterns) ==
    LET found == PayloadPositions(blocks, patterns)
    IN  IF found = {} THEN <<>>
        ELSE blocks[CHOOSE i \in found : \A j \in found : i <= j]

\* ai_explorer_reason of an empty block list
empty_reason(rec) ==
    IF rec.parsed = "invalid" THEN "eval returned invalid JSON"
    ELSE IF rec.returncode # 0 THEN "eval failed"
    ELSE "no pre blocks found"

collect_ai_explorer_messages(rec, raw_value_patterns, label_terms, tool_payload_patterns) ==
    LET blocks == pre_texts_of(rec)
        final_answer == IF blocks = <<>> THEN <<>> ELSE blocks[Len(blocks)]
        payload_patterns ==
            compile_patterns(IF tool_payload_patterns = <<>> THEN DefaultToolPatterns
                             ELSE tool_payload_patterns)
        tool_payload == first_payload_block(blocks, payload_patterns)
        summary == analyze_ai_output(final_answer, tool_payload, raw_value_patterns,
                                     label_terms)
    IN  IF summary.raised THEN [raised |-> TRUE]
        ELSE [raised |-> FALSE,
              data |-> [pre_texts |-> blocks, final_answer |-> final_answer,
                        tool_payload |-> tool_payload],
              summary |-> summary,
              ai_explorer_empty |-> blocks = <<>>,
              ai_explorer_reason |-> IF blocks = <<>> THEN empty_reason(rec) ELSE Absent]

BlockTexts == {<<>>, <<1>>, <<3>>, <<2, 3>>}

AgentRecords ==
    [returncode : {0, 1}, parsed : {"list", "nested"}, blocks : SeqsUpTo(BlockTexts, MaxBlocks)]
      \cup [returncode : {0, 1}, parsed : {"notlist", "nodata", "invalid", "none"},
            blocks : {<<>>}]

ToolPatterns ==
    { [lit |-> <<3>>, groups |-> 0, valid |-> TRUE],
      [lit |-> <<3>>, groups |-> 0, valid |-> FALSE] }

InitTranscript ==
    /\ call \in [fn : {"collect_ai_explorer_messages"}, rec : AgentRecords,
                 raw_value_patterns :
                     {<<>>, <<[lit |-> <<3>>, groups |-> 0, valid |-> TRUE],
                               [lit |-> <<2, 3>>, groups |-> 2, valid |-> TRUE]>>},
                 tool_payload_patterns : SeqsUpTo(ToolPatterns, 2)]
    /\ ret = NoneRec /\ locals = NoneRec
    /\ JudgeIdle /\ run = NoneRec
    /\ EvalIdle
    /\ CollectIdle
    /\ InterpIdle
    /\ MainIdle

CollectAiExplorerMessages ==
    /\ call # NoneRec /\ call.fn = "collect_ai_explorer_messages"
    /\ ret = NoneRec
    /\ ret' = collect_ai_explorer_messages(call.rec, call.raw_value_patterns, <<>>,
                                           call.tool_payload_patterns)
    /\ UNCHANGED <<call, locals, run, judgeVars, evalVars, collectVars, interpVars, mainVars>>

NextTranscript == CollectAiExplorerMessages

SpecTranscript == InitTranscript /\ [][NextTranscript]_vars

TranscriptCollected ==
    call # NoneRec /\ call.fn = "collect_ai_explorer_messages" /\ ret # NoneRec

\* The tool-payload patterns in force: the configured ones, the defaults
\* when none is configured
PatternsInForce ==
    IF call.tool_payload_patterns = <<>> THEN DefaultToolPatterns
    ELSE call.tool_payload_patterns

BlockMatches(block) ==
    \E k \in 1..Len(PatternsInForce) :
        PatternsInForce[k].valid /\ Contains(block, PatternsInForce[k].lit)

\* What the claim states about a returned payload
TranscriptAsClaimed ==
    LET blocks == call.rec.blocks
        n == Len(blocks)
    IN  /\ ret.data.pre_texts = blocks
        /\ ret.data.final_answer = IF n = 0 THEN <<>> ELSE blocks[n]
        /\ \/ /\ \A i \in 1..n : ~BlockMatches(blocks[i])
              /\ ret.data.tool_payload = <<>>
           \/ \E i \in 1..n :
                 /\ BlockMatches(blocks[i])
                 /\ \A j \in 1..(i - 1) : ~BlockMatches(blocks[j])
                 /\ ret.data.tool_payload = blocks[i]
        /\ ret.ai_explorer_empty <=> (n = 0)
        /\ n = 0 =>
              ret.ai_explorer_reason =
                  (CASE call.rec.parsed = "invalid" -> "eval returned invalid JSON"
                     [] call.rec.parsed # "invalid" /\ call.rec.returncode # 0 -> "eval failed"
                     [] OTHER -> "no pre blocks found")

\* C33: for every list of blocks collect_ai_explorer_messages returns a
\* payload whose final_answer is the last block and whose tool_payload is
\* the first block a tool-payload pattern matches ("" when none does); an
\* empty list sets ai_explorer_empty with one reason, chosen in the order
\* invalid JSON, non-zero return code, no blocks found.
C33_TranscriptExtraction ==
    TranscriptCollected => ~ret.raised /\ TranscriptAsClaimed

\* ------------------------------------------------------------------
\* scripts/explore.py: allowed_by_safety and fuzz_loop
\*
\* An element name is a sequence of chunks of characters, cut so that a
\* blocklist term never straddles a chunk boundary other than as listed:
\* <<"Add", "ress">> is the name "Address", <<"Log", "out">> is "Logout".

MaxActions == 2

BLOCKLIST_DESTRUCTIVE ==
    {<<"delete">>, <<"remove">>, <<"un", "install">>, <<"install">>, <<"drop">>,
     <<"purge">>, <<"rebuild">>, <<"clear", " ", "all">>, <<"wipe">>}

BLOCKLIST_ALWAYS == {<<"log", " ", "out">>}

BLOCKLIST_MUTATING ==
    {<<"save">>, <<"submit">>, <<"apply">>, <<"create">>, <<"add">>, <<"update">>}

\* str.lower, chunk by chunk
lower_chunk(c) ==
    CASE c = "Log" -> "log"
      [] c = "Out" -> "out"
      [] c = "Delete" -> "delete"
      [] c = "Add" -> "add"
      [] c = "Save" -> "save"
      [] c = "View" -> "view"
      [] OTHER -> c

str_lower(name) == [i \in 1..Len(name) |-> lower_chunk(name[i])]

RECURSIVE lstrip(_)
lstrip(name) ==
    IF name # <<>> /\ Head(name) = " " THEN lstrip(Tail(name)) ELSE name

RECURSIVE rstrip(_)
rstrip(name) ==
    IF name # <<>> /\ name[Len(name)] = " "
    THEN rstrip(SubSeq(name, 1, Len(name) - 1))
    ELSE name

str_strip(name) == rstrip(lstrip(name))

allowed_by_safety_cased(name, safety) ==
    LET n == str_strip(name)
    IN  IF \E b \in BLOCKLIST_ALWAYS : Contains(n, b) THEN FALSE
        ELSE IF safety = "dangerous" THEN TRUE
        ELSE IF \E b \in BLOCKLIST_DESTRUCTIVE : Contains(n, b) THEN FALSE
        ELSE IF \E b \in BLOCKLIST_MUTATING : Contains(n, b) THEN FALSE
        ELSE TRUE
allowed_by_safety(name, safety) ==
    LET n == str_lower(str_strip(name))
    IN  IF \E b \in BLOCKLIST_ALWAYS : Contains(n, b) THEN FALSE
        ELSE IF safety = "dangerous" THEN TRUE
        ELSE IF \E b \in BLOCKLIST_DESTRUCTIVE : Contains(n, b) THEN FALSE
        ELSE IF \E b \in BLOCKLIST_MUTATING : Contains(n, b) THEN FALSE
        ELSE TRUE

\* snapshot_interactive: the elements of the refs map, none when the agent's
\* answer is not a document; rng.choice may pick any of them, so their sort
\* order is left out
snapshot_interactive(snap) ==
    IF snap.parsed THEN snap.refs ELSE {}

NameCores ==
    {<<>>, <<"View">>, <<"Log", " ", "out">>, <<"log", " ", "Out">>, <<"Log", "out">>,
     <<"Log", " ", " ", "out">>, <<"Delete">>, <<"un", "install">>,
     <<"clear", " ", "all">>, <<"Save">>, <<"Add", "ress">>}

ElementNames ==
    { pre \o core : pre \in {<<>>, <<"View", " ">>}, core \in NameCores }
    \cup {<<" ", "Save", " ">>, <<"Log", " ", "out", " ">>}

ElementRoles == {"textbox", "checkbox", "link"}

FirstElements == [ref : {"@e1"}, role : ElementRoles, name : ElementNames]

SecondElements ==
    [ref : {"@e2"}, role : {"link"},
     name : {<<"View">>, <<"Log", " ", "out">>, <<"Delete">>}]

InteractiveSnapshots ==
    { [parsed |-> FALSE, refs |-> {}], [parsed |-> TRUE, refs |-> {}] }
    \cup { [parsed |-> TRUE, refs |-> {a}] : a \in FirstElements }
    \cup { [parsed |-> TRUE, refs |-> {a, b}] : a \in FirstElements, b \in SecondElements }

FuzzSafeties == {"read-only", "dangerous"}

InitFuzz ==
    /\ call \in [fn : {"fuzz_loop"}, safety : FuzzSafeties,
                 screenshot_every : {2}, checkpoint_every : {0, 1}]
    /\ locals = [action_count |-> 0, elements |-> {}, candidates |-> {}, log |-> <<>>]
    /\ ret = NoneRec
    /\ JudgeIdle /\ run = NoneRec
    /\ EvalIdle
    /\ CollectIdle
    /\ InterpIdle
    /\ MainIdle

AgentCmd(argv) == [kind |-> "agent", argv |-> argv]

CheckpointCmd(prefix, n) == [kind |-> "checkpoint", argv |-> <<prefix, n>>]

\* The commands of the error scan at the top of an iteration
ErrorScan(page_errors, n) ==
    <<AgentCmd(<<"snapshot", "-i", "-c">>), AgentCmd(<<"errors">>)>>
    \o (IF page_errors
        THEN <<AgentCmd(<<"get", "url">>), CheckpointCmd("error", n)>>
        ELSE <<>>)

\* The click or fill on the chosen element
ActionOn(el, n) ==
    IF el.role = "textbox"
    THEN [kind |-> "agent", argv |-> <<"fill", el.ref, "Fuzz", n>>, el |-> el]
    ELSE [kind |-> "agent", argv |-> <<"click", el.ref>>, el |-> el]

AfterAction(el, n) ==
    <<AgentCmd(<<"wait", "--load", "networkidle">>), AgentCmd(<<"get", "url">>)>>
    \o (IF n % call.screenshot_every = 0
        THEN <<AgentCmd(<<"screenshot", n, el.role>>)>> ELSE <<>>)
    \o (IF call.checkpoint_every # 0 /\ n % call.checkpoint_every = 0
        THEN <<CheckpointCmd("checkpoint", n)>> ELSE <<>>)

\* One iteration of the while loop; locals.log holds what the iteration
\* appended to the session log
FuzzIteration ==
    /\ call # NoneRec /\ call.fn = "fuzz_loop"
    /\ ret = NoneRec
    /\ locals.action_count < MaxActions
    /\ \E snap \in InteractiveSnapshots, page_errors \in BOOLEAN :
        LET elements == snapshot_interactive(snap)
            candidates == { e \in elements : allowed_by_safety(e.name, call.safety) }
            n == locals.action_count
        IN  IF candidates = {}
            THEN locals' = [action_count |-> n, elements |-> elements,
                            candidates |-> candidates,
                            log |-> ErrorScan(page_errors, n)
                                    \o <<AgentCmd(<<"press", "Escape">>)>>]
            ELSE \E el \in candidates :
                    locals' = [action_count |-> n + 1, elements |-> elements,
                               candidates |-> candidates,
                               log |-> ErrorScan(page_errors, n)
                                       \o <<ActionOn(el, n)>>
                                       \o AfterAction(el, n + 1)]
    /\ UNCHANGED <<call, ret, run, judgeVars, evalVars, collectVars, interpVars, mainVars>>

\* The duration has passed: the loop ends and fuzz-done is recorded
FuzzDone ==
    /\ call # NoneRec /\ call.fn = "fuzz_loop"
    /\ ret = NoneRec
    /\ ret' = [kind |-> "fuzz-done", actions |-> locals.action_count]
    /\ UNCHANGED <<call, locals, run, judgeVars, evalVars, collectVars, interpVars, mainVars>>

NextFuzz == FuzzIteration \/ FuzzDone

SpecFuzz == InitFuzz /\ [][NextFuzz]_vars

Fuzzing == call # NoneRec /\ call.fn = "fuzz_loop"

\* The click and fill commands of the latest iteration
ClicksAndFills ==
    { i \in 1..Len(locals.log) :
        locals.log[i].kind = "agent" /\ locals.log[i].argv[1] \in {"click", "fill"} }

\* A name contains a term, in whatever case it is written
NameHas(name, terms) == \E b \in terms : Contains(str_lower(name), b)

\* C35: the fuzz loop never clicks or fills an element whose name contains
\* "log out"; in read-only mode it never clicks or fills one whose name
\* contains a destructive or a mutating term; in dangerous mode every element
\* without "log out" in its name is a candidate.
C35_FuzzSafetyGate ==
    Fuzzing =>
        /\ \A i \in ClicksAndFills :
            LET el == locals.log[i].el
            IN  /\ el \in locals.elements
                /\ ~NameHas(el.name, BLOCKLIST_ALWAYS)
                /\ call.safety = "read-only" =>
                      /\ ~NameHas(el.name, BLOCKLIST_DESTRUCTIVE)
                      /\ ~NameHas(el.name, BLOCKLIST_MUTATING)
        /\ call.safety = "dangerous" =>
              \A e \in locals.elements :
                  ~NameHas(e.name, BLOCKLIST_ALWAYS) => e \in locals.candidates

\* A dangerous run clicked a "Delete" element while a "Log out" element was on
\* the page
C35_Witness ==
    /\ Fuzzing /\ call.safety = "dangerous"
    /\ \E i \in ClicksAndFills : NameHas(locals.log[i].el.name, BLOCKLIST_DESTRUCTIVE)
    /\ \E e \in locals.elements : NameHas(e.name, BLOCKLIST_ALWAYS)

\* ------------------------------------------------------------------
\* scripts/compare_runs.py: compare_ai_explorer and the report of main
\*
\* An AI transcript file is [readable, kind, final_answer, tool_payload,
\* pre_texts]: kind "dict" is a payload with a data object, "nodata" a payload
\* without one, "null" the JSON value null.

extract_ai_explorer(payload) ==
    LET has == payload.kind = "dict"
        pre_texts == IF has THEN payload.pre_texts ELSE <<>>
        final == IF has THEN payload.final_answer ELSE NoneT
        tool == IF has THEN payload.tool_payload ELSE NoneT
    IN  [pre_texts |-> pre_texts,
         final_answer |-> IF TruthyT(final) THEN final
                          ELSE IF pre_texts # <<>> THEN pre_texts[Len(pre_texts)]
                          ELSE <<>>,
         tool_payload |-> OrEmpty(tool)]

compare_ai_explorer(baseline, modified) ==
    LET base_err == load_json_error(baseline)
        mod_err == load_json_error(modified)
        base_data == extract_ai_explorer(baseline)
        mod_data == extract_ai_explorer(modified)
    IN  IF base_err # "None" \/ mod_err # "None"
           \/ baseline.kind = "null" \/ modified.kind = "null"
        THEN [same |-> FALSE, error |-> [baseline |-> base_err, modified |-> mod_err]]
        ELSE [same |-> base_data = mod_data,
              data |-> [baseline |-> base_data, modified |-> mod_data],
              diffs |-> [final_answer |->
                            IF base_data.final_answer = mod_data.final_answer THEN <<>>
                            ELSE diff_text(base_data.final_answer, mod_data.final_answer),
                         tool_payload |->
                            IF base_data.tool_payload = mod_data.tool_payload THEN <<>>
                            ELSE diff_text(base_data.tool_payload, mod_data.tool_payload)]]

\* The artifacts of a checkpoint hold, per kind, the file that was written, or
\* NoneRec where nothing was captured; probes is a list of files

\* {cp.get("name"): cp for cp in checkpoints if cp.get("name")}: the last
\* checkpoint of a name, NoneRec without one
CheckpointNamed(checkpoints, name) ==
    LET at == { i \in 1..Len(checkpoints) : checkpoints[i].name = name }
    IN  IF at = {} THEN NoneRec
        ELSE checkpoints[CHOOSE i \in at : \A j \in at : j <= i]

CheckpointNames(checkpoints) ==
    { checkpoints[i].name : i \in 1..Len(checkpoints) } \ {""}

\* `if base_x and mod_x`: a kind is compared when both runs captured it
CapturedInBoth(base_file, mod_file) == base_file # NoneRec /\ mod_file # NoneRec

\* `if base_probes or mod_probes`: probes are compared when either run has some
ProbesInBoth(base_probes, mod_probes) == base_probes # <<>> /\ mod_probes # <<>>
ProbesInEither(base_probes, mod_probes) == base_probes # <<>> \/ mod_probes # <<>>

ComparedKinds(b, m) ==
    { k \in {"snapshot", "console", "errors", "drupal_messages", "ai_explorer"} :
        CapturedInBoth(b[k], m[k]) }
    \cup (IF ProbesInEither(b.probes, m.probes) THEN {"probes"} ELSE {})

\* The comparator of a kind; a log comparison that raises is marked
CompareKind(k, b, m) ==
    CASE k = "snapshot" -> compare_snapshots(b[k], m[k])
      [] k \in {"console", "errors"} ->
            LET c == compare_logs(b[k], m[k])
            IN  IF c.raised THEN [raised |-> TRUE] ELSE c.result
      [] k = "drupal_messages" -> compare_drupal_messages(b[k], m[k])
      [] k = "ai_explorer" -> compare_ai_explorer(b[k], m[k])
      [] OTHER -> compare_probes(b.probes, m.probes)

\* cp_diff of one checkpoint present in both runs
checkpoint_diff(base_cp, mod_cp) ==
    [k \in ComparedKinds(base_cp.artifacts, mod_cp.artifacts) |->
        CompareKind(k, base_cp.artifacts, mod_cp.artifacts)]

SnapshotError(cp_diff) ==
    "snapshot" \in DOMAIN cp_diff /\ "error" \in DOMAIN cp_diff["snapshot"]

\* The `changed` flag of one checkpoint: a snapshot comparison with an error
\* does not set it
checkpoint_changed(cp_diff) ==
    \E k \in DOMAIN cp_diff :
        /\ ~(k = "snapshot" /\ SnapshotError(cp_diff))
        /\ cp_diff[k].same = FALSE

ReportVerdict(errors, snapshot_diff_count, missing, changed_checkpoints) ==
    IF errors > 0 THEN "ERROR"
    ELSE IF snapshot_diff_count > 0 \/ missing > 0 \/ changed_checkpoints > 0 THEN "CHANGED"
    ELSE "IDENTICAL"

\* The comparison and the summary of the report
build_report(base_run, mod_run) ==
    LET base_names == CheckpointNames(base_run.checkpoints)
        mod_names == CheckpointNames(mod_run.checkpoints)
        all_names == base_names \cup mod_names
        both == base_names \cap mod_names
        diffs == [n \in both |->
                    checkpoint_diff(CheckpointNamed(base_run.checkpoints, n),
                                    CheckpointNamed(mod_run.checkpoints, n))]
        snapshot_ok(n) == "snapshot" \in DOMAIN diffs[n] /\ ~SnapshotError(diffs[n])
        matching == { n \in both : snapshot_ok(n) /\ diffs[n]["snapshot"].same }
        different == { n \in both : snapshot_ok(n) /\ ~diffs[n]["snapshot"].same }
        errors == { n \in both : SnapshotError(diffs[n]) }
        changed == { n \in both : checkpoint_changed(diffs[n]) }
        missing == all_names \ both
    IN  [raised |-> \E n \in both : \E k \in DOMAIN diffs[n] : "raised" \in DOMAIN diffs[n][k],
         comparison |-> [matching_checkpoints |-> matching,
                         missing_checkpoints |->
                            { [checkpoint |-> n, baseline |-> n \in base_names,
                               modified |-> n \in mod_names] : n \in missing },
                         errors |-> errors,
                         checkpoints |-> diffs,
                         changed_checkpoints |-> changed],
         summary |-> [checkpoints_total |-> Cardinality(all_names),
                      matching |-> Cardinality(matching),
                      different |-> Cardinality(different),
                      changed_checkpoints |-> Cardinality(changed),
                      missing |-> Cardinality(missing),
                      errors |-> Cardinality(errors),
                      verdict |-> ReportVerdict(Cardinality(errors), Cardinality(different),
                                                Cardinality(missing), Cardinality(changed))]]

\* main's return value for a report verdict
ReportExitOf(v) == CASE v = "IDENTICAL" -> 0 [] v = "ERROR" -> 2 [] OTHER -> 1

\* Files a checkpoint of the baseline run can hold
ReportSnapshot(names) ==
    [kind |-> "record",
     refs |-> RefsOf([i \in 1..Len(names) |->
                        [dict |-> TRUE, role |-> 2, name |-> names[i], value |-> AbsentN,
                         level |-> AbsentN, href |-> AbsentN]], 0)]

ReportLog(items) == [kind |-> "list", key |-> "", items |-> items]

ReportMessages(status) ==
    [readable |-> TRUE, kind |-> "dict", status |-> status, alert |-> NoneT]

ReportAi(final) ==
    [readable |-> TRUE, kind |-> "dict", final_answer |-> final, tool_payload |-> NoneT,
     pre_texts |-> <<>>]

ReportProbe(rc) == [readable |-> TRUE, returncode |-> rc, stdout |-> <<>>, stderr |-> <<>>]

FullArtifacts ==
    [snapshot |-> ReportSnapshot(<<1>>), console |-> ReportLog(<<1>>),
     errors |-> ReportLog(<<>>), drupal_messages |-> ReportMessages(<<"a">>),
     ai_explorer |-> ReportAi(<<"a">>), probes |-> <<ReportProbe(0)>>]

\* The artifacts without the kinds that were not captured
Without(arts, kinds) ==
    [k \in DOMAIN arts |->
        IF k \notin kinds THEN arts[k] ELSE IF k = "probes" THEN <<>> ELSE NoneRec]

\* A full checkpoint that lacks up to two kinds, one whose snapshot carries a
\* parse error, and a snapshot-only checkpoint
BaselineArtifacts ==
    { Without(FullArtifacts, {k1, k2}) : k1, k2 \in DOMAIN FullArtifacts }
    \cup { Without([FullArtifacts EXCEPT !.snapshot = [kind |-> "parsed_error", refs |-> <<>>]],
                   {k}) : k \in DOMAIN FullArtifacts }
    \cup { FullArtifacts, Without(FullArtifacts, DOMAIN FullArtifacts \ {"snapshot"}) }

\* What the modified run can hold instead, kind by kind
ModifiedInstead ==
    [snapshot |-> {NoneRec, ReportSnapshot(<<1>>), ReportSnapshot(<<1, 2>>),
                   [kind |-> "parsed_error", refs |-> <<>>]},
     console |-> {NoneRec, ReportLog(<<1>>), ReportLog(<<2>>),
                  [kind |-> "parsed_error", key |-> "", items |-> <<>>]},
     errors |-> {NoneRec, ReportLog(<<>>), ReportLog(<<1>>)},
     drupal_messages |-> {NoneRec, ReportMessages(<<"a">>), ReportMessages(NoneT),
                          [readable |-> TRUE, kind |-> "null", status |-> NoneT,
                           alert |-> NoneT]},
     ai_explorer |-> {NoneRec, ReportAi(<<"a">>), ReportAi(<<"a", "a">>)},
     probes |-> {<<>>, <<ReportProbe(0)>>, <<ReportProbe(1)>>,
                 <<ReportProbe(0), ReportProbe(0)>>}]

\* The modified run's artifacts differ from the baseline's in at most one kind
ModifiedArtifacts(b) ==
    {b} \cup UNION { { [b EXCEPT ![k] = f] : f \in ModifiedInstead[k] } :
                       k \in DOMAIN ModifiedInstead }

\* A second checkpoint "b" (or an earlier checkpoint "a") next to checkpoint
\* "a": lists of checkpoints put before "a" in the baseline and in the
\* modified run
OtherCheckpoints ==
    LET B(arts) == [name |-> "b", artifacts |-> arts]
    IN  { [base |-> <<>>, mod |-> <<>>],
          [base |-> <<B(FullArtifacts)>>, mod |-> <<>>],
          [base |-> <<>>, mod |-> <<B(FullArtifacts)>>],
          [base |-> <<B(FullArtifacts)>>, mod |-> <<B(FullArtifacts)>>],
          [base |-> <<B(FullArtifacts)>>,
           mod |-> <<B([FullArtifacts EXCEPT !.snapshot =
                           [kind |-> "parsed_error", refs |-> <<>>]])>>],
          [base |-> <<B(FullArtifacts)>>,
           mod |-> <<B([FullArtifacts EXCEPT !.console = ReportLog(<<2>>)])>>],
          [base |-> <<[name |-> "a", artifacts |-> FullArtifacts]>>, mod |-> <<>>] }

\* How the agent answers the two close commands after the report: the fault
\* hits the first, the second, or neither
CloseFaults ==
    { [at |-> 0, how |-> "none"], [at |-> 1, how |-> "rc1"], [at |-> 1, how |-> "raise"],
      [at |-> 2, how |-> "raise"] }

\* compare_runs.main after both runs: the state when the modified run and
\* after_cmd are done
InitReport ==
    /\ \E b \in BaselineArtifacts, o \in OtherCheckpoints, f \in CloseFaults :
        \E m \in ModifiedArtifacts(b) :
            /\ runs = << [name |-> "baseline",
                          checkpoints |-> Append(o.base, [name |-> "a", artifacts |-> b])],
                         [name |-> "modified",
                          checkpoints |-> Append(o.mod, [name |-> "a", artifacts |-> m])] >>
            /\ prog = [name |-> "compare_runs", fault |-> f]
    /\ pc = [at |-> "compare"]
    /\ issued = <<>> /\ written = {} /\ exitCode = NoneRec
    /\ JudgeIdle /\ run = NoneRec
    /\ EvalIdle
    /\ CollectIdle
    /\ InterpIdle
    /\ CallIdle

\* The rest of main: compare the checkpoints, write the report and its
\* markdown, close both sessions, return the exit code of the verdict
CompareReport ==
    /\ pc.at = "compare"
    /\ prog.name = "compare_runs"
    /\ \E report \in {build_report(runs[1], runs[2])} :
       LET closes == IssueAll(<< Event("close", prog.name, "baseline", 0, TRUE),
                                 Event("close", prog.name, "modified", 0, TRUE) >>,
                              prog.fault, 1)
       IN  IF report.raised
           THEN /\ exitCode' = Uncaught
                /\ UNCHANGED <<written, issued, locals>>
           ELSE /\ locals' = report
                /\ written' = {"report", "markdown"}
                /\ issued' = closes.issued
                /\ exitCode' = IF closes.raised THEN Uncaught
                               ELSE Returned(ReportExitOf(report.summary.verdict))
    /\ pc' = [at |-> "exited"]
    /\ UNCHANGED <<prog, runs, call, ret, run, judgeVars, evalVars, collectVars, interpVars>>

NextReport == CompareReport

SpecReport == InitReport /\ [][NextReport]_vars

\* The report was written
Reported == pc # NoneRec /\ pc.at = "exited" /\ prog.name = "compare_runs" /\ locals # NoneRec

\* Checkpoint names of a run
RunCheckpointNames(i) == { runs[i].checkpoints[j].name : j \in 1..Len(runs[i].checkpoints) }

InBothRuns == RunCheckpointNames(1) \cap RunCheckpointNames(2)

\* The results of the comparisons made for the checkpoints in both runs
ComparisonsOf(n) == locals.comparison.checkpoints[n]

SomeSnapshotError ==
    \E n \in InBothRuns :
        /\ "snapshot" \in DOMAIN ComparisonsOf(n)
        /\ "error" \in DOMAIN ComparisonsOf(n)["snapshot"]

SomeOneSidedName == RunCheckpointNames(1) # RunCheckpointNames(2)

SomeComparedDiffers ==
    \E n \in InBothRuns : \E k \in DOMAIN ComparisonsOf(n) : ~ComparisonsOf(n)[k].same

\* The verdict the claim gives for the comparisons made
ClaimedReportVerdict ==
    IF SomeSnapshotError THEN "ERROR"
    ELSE IF SomeOneSidedName \/ SomeComparedDiffers THEN "CHANGED"
    ELSE "IDENTICAL"

VerdictAsClaimed == locals.summary.verdict = ClaimedReportVerdict

\* C36: the report's verdict is ERROR exactly when a snapshot comparison
\* carried an error, otherwise CHANGED exactly when a checkpoint name is in
\* one run only or a compared kind has same=false, otherwise IDENTICAL; the
\* process exits with 0 for IDENTICAL, 1 for CHANGED and 2 for ERROR.
C36_ReportVerdictAndExit ==
    Reported =>
        /\ VerdictAsClaimed
        /\ exitCode = Returned(CASE locals.summary.verdict = "IDENTICAL" -> 0
                                 [] locals.summary.verdict = "CHANGED" -> 1
                                 [] OTHER -> 2)

\* The artifacts of the checkpoint of a name that a run's index holds
ArtifactsIn(i, n) == CheckpointNamed(runs[i].checkpoints, n).artifacts

OneSided(n, k) == (ArtifactsIn(1, n)[k] = NoneRec) # (ArtifactsIn(2, n)[k] = NoneRec)

SingleFileKinds == {"snapshot", "console", "errors", "drupal_messages", "ai_explorer"}

\* C37: for a checkpoint in both runs, a snapshot, console, errors,
\* status-banner or AI-transcript artifact captured in one run only is not
\* compared, a checkpoint is marked changed only by a kind that was compared,
\* and probes are compared as soon as either run has some.
C37_OneSidedEvidenceSkipped ==
    Reported =>
        \A n \in InBothRuns :
            /\ \A k \in SingleFileKinds : OneSided(n, k) => k \notin DOMAIN ComparisonsOf(n)
            /\ n \in locals.comparison.changed_checkpoints =>
                  \E k \in DOMAIN ComparisonsOf(n) : ~ComparisonsOf(n)[k].same
            /\ (ArtifactsIn(1, n).probes = <<>>) # (ArtifactsIn(2, n).probes = <<>>) =>
                  /\ "probes" \in DOMAIN ComparisonsOf(n)
                  /\ n \in locals.comparison.changed_checkpoints

\* An IDENTICAL report although the console log of a checkpoint was captured
\* in one run only
C37_Witness ==
    /\ Reported
    /\ locals.summary.verdict = "IDENTICAL"
    /\ \E n \in InBothRuns : OneSided(n, "console")

\* ------------------------------------------------------------------
\* evaluate_assertion on a checkpoint without the evidence it reads

\* The artifact an assertion reads, "" when it reads none
RelevantArtifact(a) ==
    CASE a.type = "no_console_errors" -> "errors"
      [] a.type = "no_drupal_messages" -> "drupal_messages"
      [] a.type \in {"text_absent", "text_present"} /\ a.scope \in {"final_answer", "tool_call"}
            -> "ai_explorer"
      [] a.type \in {"text_absent", "text_present"}
         /\ a.scope \in {"drupal_status", "drupal_alert"} -> "drupal_messages"
      [] OTHER -> ""

\* The assertion was evaluated on a checkpoint whose artifact for it is
\* absent or unreadable
EvidenceAbsent ==
    /\ Evaluated
    /\ resolved # NoneRec
    /\ RelevantArtifact(assertion) # ""
    /\ resolved.artifacts[RelevantArtifact(assertion)].file \in {"absent", "unreadable"}

\* Some configured pattern is a regular expression that matches the empty text
MatchesEmptyText(a) ==
    \E i \in 1..Len(a.patterns) : ReCompiles(a.patterns[i]) /\ a.patterns[i] = <<>>

\* C38 as stated: on absent evidence no_console_errors, no_drupal_messages and
\* text_absent are PASS and text_present is FAIL.
C38_AbsentEvidenceOutcome ==
    EvidenceAbsent =>
        result.status = IF assertion.type = "text_present" THEN "FAIL" ELSE "PASS"

\* C38 amended: on absent evidence no_console_errors and no_drupal_messages
\* are PASS, text_absent is PASS and text_present is FAIL unless a configured
\* pattern matches the empty text, and none of the four is ERROR.
C38_AbsentEvidenceOutcomeAmended ==
    EvidenceAbsent =>
        /\ result.status # "ERROR"
        /\ ~MatchesEmptyText(assertion) =>
              result.status = IF assertion.type = "text_present" THEN "FAIL" ELSE "PASS"

\* A text_present assertion with a pattern that does not match the empty text
\* was evaluated on a checkpoint without the transcript and came out FAIL
C38_Witness ==
    /\ EvidenceAbsent
    /\ assertion.type = "text_present"
    /\ ~MatchesEmptyText(assertion)
    /\ result.status = "FAIL"

\* ------------------------------------------------------------------
\* compare_snapshots: the coarse (role, name) view against the exact one

SnapshotResultWithoutError ==
    SnapshotCompared /\ "error" \notin DOMAIN ret.result

PairsListed(list) == { <<list[i].role, list[i].name>> : i \in 1..Len(list) }

\* C39: in a compare_snapshots result without an error, same=true implies
\* added_count = 0, removed_count = 0 and no diff lines; no (role, name) pair
\* is listed both as added and as removed; and added_count - removed_count is
\* the modified element count minus the baseline element count.
C39_CoarseViewConsistent ==
    SnapshotResultWithoutError =>
        LET r == ret.result
        IN  /\ r.same => /\ r.changes.added_count = 0
                         /\ r.changes.removed_count = 0
                         /\ r.diff_lines = <<>>
            /\ PairsListed(r.changes.added) \cap PairsListed(r.changes.removed) = {}
            /\ r.changes.added_count - r.changes.removed_count
                   = r.modified.summary.count - r.baseline.summary.count

\* Snapshots that differ while as many elements count as added as count as
\* removed (none, when they differ in a field outside the pair)
C39_Witness ==
    /\ SnapshotResultWithoutError
    /\ ~ret.result.same
    /\ ret.result.changes.added_count = ret.result.changes.removed_count
    /\ ret.result.baseline.summary.count > 0

\* ------------------------------------------------------------------
\* intent_test.main: the verdict against the outcomes of the steps

\* intent_test.main ended after it started to execute a valid manifest
IntentTestEnded ==
    /\ prog # NoneRec /\ prog.name = "intent_test"
    /\ ManifestValid
    /\ pc.at = "exited"

NothingToJudge == manifest.assertions.items = <<>> /\ manifest.guards = <<>>

\* C40: with no assertions and no guards the verdict of intent_test.main is
\* PASS with ready_to_submit true whatever the steps did, and a manifest
\* with an assertion judged against a run without checkpoints gives ERROR.
C40_VerdictIgnoresStepOutcomes ==
    IntentTestEnded =>
        /\ NothingToJudge =>
              /\ verdict # NoVerdict
              /\ verdict.verdict = "PASS"
              /\ verdict.ready_to_submit
        /\ (manifest.assertions.items # <<>> /\ run # NoneRec /\ run.checkpoints = <<>>) =>
              verdict.verdict = "ERROR"

====
